---- MODULE Spec2Model ----
(***************************************************************************)
(* USRL shared-memory ring library: the region builder, the SWMR and MWMR  *)
(* publish paths, the subscriber read path and the facade's create calls,  *)
(* as a state machine over the shared region and the per-process handles.  *)
(*                                                                         *)
(* Every access to shared memory (w_head, a slot's seq, payload_len,       *)
(* pub_id, a chunk of payload bytes) is one step, so publishers and        *)
(* subscribers interleave between any two of their shared accesses.        *)
(* The timestamp_ns header field is not modelled (no reader uses it).      *)
(***************************************************************************)
EXTENDS Integers, Sequences, FiniteSets, TLC

(***************************************************************************)
(* Bounds of the model                                                     *)
(***************************************************************************)
MaxSeq == 2         \* publishes are started only while w_head < MaxSeq
MaxData == 2        \* payload byte values 1..MaxData (0 is the memset value)
CopyChunk == 4      \* bytes one step of a memcpy moves
MaxObjects == 2     \* shared-memory objects ever created under the path
MaxSlotReq == 2     \* requested slot counts 1..MaxSlotReq
ReqPayload == 8     \* requested payload size of the topic (UsrlTopicConfig.slot_size)
max_iter == 1       \* spin cap of the MWMR gate (100000 in the code)
MaxRecvs == 2       \* usrl_sub_recv calls made on one facade subscriber
WordBits == 13      \* bits of a uint32_t in the model (32 in the code)

(***************************************************************************)
(* Program constants                                                       *)
(***************************************************************************)
USRL_RING_TYPE_SWMR == 0
USRL_RING_TYPE_MWMR == 1
SizeofSlotHeader == 24
USRL_SLOT_ALIGN == 8

Pubs == {"p1", "p2"}
Subs == {"s1", "s2"}
NULL == 0

(***************************************************************************)
(* Unsigned arithmetic helpers                                             *)
(***************************************************************************)
RECURSIVE BitAnd(_, _)
BitAnd(a, b) ==
    IF a = 0 \/ b = 0 THEN 0
    ELSE (a % 2) * (b % 2) + 2 * BitAnd(a \div 2, b \div 2)

RECURSIVE BitOr(_, _)
BitOr(a, b) ==
    IF a = 0 THEN b
    ELSE IF b = 0 THEN a
    ELSE (IF a % 2 = 1 \/ b % 2 = 1 THEN 1 ELSE 0) + 2 * BitOr(a \div 2, b \div 2)

\* The model's integers are 31-bit: every value the bounded model computes is
\* far below 2^31, so the uint32_t / uint64_t operations of the code are
\* written on naturals and no wrap-around can occur within the bounds.
WordMax == 2147483647

Shr(v, n) == v \div (2 ^ n)

\* v |= v >> n
OrShift(v, n) == BitOr(v, Shr(v, n))

\* 2^32 of the code: a uint32_t holds 0 .. WordModulus - 1
WordModulus == 2 ^ WordBits

\* the increment at the return wraps around like the uint32_t it is
next_power_of_two_u32(v) ==
    IF v = 0 THEN 1
    ELSE (OrShift(OrShift(OrShift(OrShift(OrShift(v - 1, 1), 2), 4), 8), 16) + 1)
             % WordModulus

\* (v + (a - 1)) & ~(a - 1)
usrl_align_up(v, a) == BitAnd(v + (a - 1), WordMax - (a - 1))

Min(a, b) == IF a < b THEN a ELSE b

(***************************************************************************)
(* State                                                                   *)
(***************************************************************************)
VARIABLES
    shm_path,   \* object the shm name "/usrl-<topic>" refers to, NULL if none
    nobj,       \* number of shm objects created so far
    region,     \* per object: CoreHeader / TopicEntry / RingDesc fixed fields
    w_head,     \* per object: RingDesc.w_head
    slot,       \* per object: slot index -> SlotHeader fields and payload
    pub,        \* publisher handles (UsrlPublisher / UsrlMwmrPublisher)
    pubf,       \* publisher call frames (usrl_pub_publish, usrl_mwmr_pub_publish)
    sub,        \* subscriber handles (UsrlSubscriber)
    subf,       \* subscriber call frames (usrl_sub_next)
    fac,        \* facade handles and call frames (usrl_pub_create, usrl_sub_create,
                \* usrl_pub_send)
    last,       \* the call that returned in the last step, with its results
    granted,    \* history, per object: the reservations in fetch_add order
    delivered,  \* history, per subscriber: sequences its calls consumed
    core        \* usrl_core_init on a topic list: call frame and object image

vars == <<shm_path, nobj, region, w_head, slot, pub, pubf, sub, subf, fac,
          last, granted, delivered, core>>

shared == <<shm_path, nobj, region, w_head, slot>>

Objects == 1..MaxObjects

(***************************************************************************)
(* Region builder: what usrl_core_init writes for its single topic         *)
(***************************************************************************)
NoRegion == [size |-> 0, magic |-> FALSE, type |-> 0, slot_count |-> 0, slot_size |-> 0]

EmptySlot(cap) ==
    [seq |-> 0, payload_len |-> 0, pub_id |-> 0, payload |-> [k \in 1..cap |-> 0]]

\* slot_size - sizeof(SlotHeader)
capacity(o) == region[o].slot_size - SizeofSlotHeader

\* TopicEntry and RingDesc of the topic for a UsrlTopicConfig
BuiltRegion(cfg) ==
    [size |-> 1, magic |-> TRUE, type |-> cfg.type,
     slot_count |-> next_power_of_two_u32(cfg.slot_count),
     slot_size  |-> usrl_align_up(SizeofSlotHeader + cfg.slot_size, USRL_SLOT_ALIGN)]

BuiltSlots(cfg) ==
    [i \in 0..(next_power_of_two_u32(cfg.slot_count) - 1) |->
        EmptySlot(usrl_align_up(SizeofSlotHeader + cfg.slot_size, USRL_SLOT_ALIGN)
                  - SizeofSlotHeader)]

(***************************************************************************)
(* Region builder on a list of topics: the layout usrl_core_init computes  *)
(***************************************************************************)
SizeofCoreHeader == 32
SizeofTopicEntry == 88
SizeofRingDesc == 56
USRL_ALIGNMENT == 64
MinRegionSize == 4096

\* the object at the path: none, or its header, topic table, ring
\* descriptors and the topics whose slot headers were initialised
NoImage == [exists |-> FALSE, size |-> 0, magic |-> FALSE, version |-> 0,
            topic_table_offset |-> 0, topic_count |-> 0,
            table |-> <<>>, desc |-> <<>>, seq_init |-> {}]

\* the object after shm_open, ftruncate and memset(base, 0, size)
ZeroImage(size) == [NoImage EXCEPT !.exists = TRUE, !.size = size]

\* a TopicEntry of zeroed memory
ZeroEntry == [name |-> "", ring_desc_offset |-> 0, slot_count |-> 0,
              slot_size |-> 0, type |-> 0]

EntryAt(img, i) == IF i <= Len(img.table) THEN img.table[i] ELSE ZeroEntry

\* usrl_get_topic(base, name): index of the first entry of that name, NULL if
\* the magic is wrong or no entry matches
usrl_get_topic(img, name) ==
    IF ~img.exists \/ ~img.magic THEN NULL
    ELSE LET hits == {i \in 1..img.topic_count : EntryAt(img, i).name = name}
         IN  IF hits = {} THEN NULL
             ELSE CHOOSE i \in hits : \A j \in hits : i <= j

IdleCore == [pc |-> "idle", size |-> 0, topics |-> <<>>, i |-> 0,
             ring_desc_start |-> 0, next_free_slot_offset |-> 0,
             ncalls |-> 0, rc |-> 0, img |-> NoImage]

(***************************************************************************)
(* Handles                                                                 *)
(***************************************************************************)
UnboundPub == [desc |-> NULL, mask |-> 0, pub_id |-> 0, is_mwmr |-> FALSE]
\* skipped_count is the field usrl_sub_get_health reads from the handle; the
\* UsrlSubscriber type does not declare it and no statement of the ring
\* layer assigns it, so it keeps the 0 the calloc of usrl_sub_create left
UnboundSub == [desc |-> NULL, mask |-> 0, last_seq |-> 0, skipped_count |-> 0]

PubIdOf(p) == IF p = "p1" THEN 1 ELSE 2

\* usrl_pub_init / usrl_mwmr_pub_init on a mapped object o
usrl_pub_init(h, o, mwmr, id) ==
    IF ~region[o].magic THEN h
    ELSE IF mwmr /\ region[o].type # USRL_RING_TYPE_MWMR THEN h
    ELSE [h EXCEPT !.desc = o, !.mask = region[o].slot_count - 1,
                   !.pub_id = id, !.is_mwmr = mwmr]

\* usrl_sub_init on a mapped object o
usrl_sub_init(h, o) ==
    IF ~region[o].magic THEN h
    ELSE [h EXCEPT !.desc = o, !.mask = region[o].slot_count - 1, !.last_seq = 0]

IdlePubFrame == [pc |-> "idle", data |-> <<>>, len |-> 0, commit_seq |-> 0,
                 k |-> 0, iter |-> 0]

\* entry is history: the value of last_seq when the call began
IdleSubFrame == [pc |-> "idle", buf_len |-> 0, want_id |-> FALSE, w_head |-> 0,
                 next |-> 0, seq |-> 0, payload_len |-> 0, k |-> 0,
                 out_buf |-> <<>>, out_pub_id |-> 0, entry |-> 0]

NoCfg == [type |-> 0, slot_count |-> 0, slot_size |-> 0]

\* frame of a usrl_pub_create / usrl_sub_create call: the topic config, the
\* object usrl_core_init opened (fd), the object usrl_core_map mapped (base),
\* and whether the path named an object when the call began
\* PublishQuota after calloc
ZeroQuota == [publish_quota |-> 0, publish_window_ns |-> 0, last_window_start_ns |-> 0,
              msgs_in_window |-> 0, total_throttled |-> 0]

\* the facade handle usrl_pub_t after calloc (use_limiter, block_on_full,
\* quota, local_drops), the frame of its usrl_pub_send call (spc, now, len)
\* and, as history, the sends the handle has made (sends)
IdleSend == [use_limiter |-> FALSE, block_on_full |-> FALSE, quota |-> ZeroQuota,
             local_drops |-> 0, spc |-> "idle", now |-> 0, len |-> 0, sends |-> <<>>]

\* the facade subscriber's local counters after calloc
NewHealth == [local_ops |-> 0, local_skips |-> 0, local_errors |-> 0]

\* the facade handle usrl_sub_t after calloc (health: local_ops, local_skips,
\* local_errors) and the frame of its usrl_sub_recv call (rpc, max_len)
\* calls is history: the usrl_sub_recv calls made on the handle
IdleRecv == [rpc |-> "idle", max_len |-> 0, health |-> NewHealth, calls |-> 0]

IdleFac == [pc |-> "idle", cfg |-> NoCfg, fd |-> NULL, base |-> NULL, existed |-> FALSE,
            send |-> IdleSend, recv |-> IdleRecv]

\* a returned call: who returned, the function, its return code, the path it
\* took, the sequence it was about, and what a subscriber got in its buffers
NoEvent == [who |-> "none", op |-> "none", rc |-> 0, path |-> "none", seq |-> 0,
            buf_len |-> 0, out |-> <<>>, want_id |-> FALSE, out_pub_id |-> 0]

PubEvent(p, rc, path, seq) ==
    [NoEvent EXCEPT !.who = p, !.op = "publish", !.rc = rc, !.path = path, !.seq = seq]

SubEvent(s, rc, path, seq) ==
    [NoEvent EXCEPT !.who = s, !.op = "sub_next", !.rc = rc, !.path = path, !.seq = seq]

(***************************************************************************)
(* Facade receive: usrl_sub_recv                                           *)
(***************************************************************************)
\* return codes of the ring layer as the facade names them
USRL_RING_NO_DATA == 0
USRL_RING_TRUNC == -3
USRL_RING_ERROR == -1

\* faulty variant: a truncation is not told apart from a delivery
usrl_sub_recv_NoSkip(subnull, bufnull, ret, health) ==
    IF subnull \/ bufnull THEN [ret |-> -1, health |-> health]
    ELSE IF ret = USRL_RING_NO_DATA THEN [ret |-> -11, health |-> health]
    ELSE IF ret = USRL_RING_ERROR
    THEN [ret |-> -1, health |-> [health EXCEPT !.local_errors = @ + 1]]
    ELSE [ret |-> ret, health |-> [health EXCEPT !.local_ops = @ + 1]]

\* usrl_sub_recv after its call of usrl_sub_next returned ret: the value it
\* returns and the counters it leaves
usrl_sub_recv(subnull, bufnull, ret, health) ==
    IF subnull \/ bufnull THEN [ret |-> -1, health |-> health]
    ELSE IF ret = USRL_RING_NO_DATA THEN [ret |-> -11, health |-> health]
    ELSE IF ret = USRL_RING_TRUNC
    THEN [ret |-> -1, health |-> [health EXCEPT !.local_skips = @ + 1]]
    ELSE IF ret = USRL_RING_ERROR
    THEN [ret |-> -1, health |-> [health EXCEPT !.local_errors = @ + 1]]
    ELSE [ret |-> ret, health |-> [health EXCEPT !.local_ops = @ + 1]]

(***************************************************************************)
(* Publish: usrl_pub_publish (SWMR) and usrl_mwmr_pub_publish (MWMR)       *)
(***************************************************************************)
\* (uint32_t)((seq - 1) & mask)
\* faulty variant: the index is taken from the sequence itself
SlotIndex_FromSeq(seq, mask) == BitAnd(seq, mask)

SlotIndex(seq, mask) == BitAnd(seq - 1, mask)

\* faulty variant: the reservation reads w_head without adding to it
FetchAddHead_NoAdd(old) == old

\* value of w_head after atomic_fetch_add_explicit(&d->w_head, 1, ...)
FetchAddHead(old) == old + 1

\* the caller's buffer: len bytes of value d
PayloadOf(d, len) == [k \in 1..len |-> d]

\* faulty variant: the size test is off by one (>= instead of >)
PubValidate_OffByOne(p, hnull, dnull, len) ==
    IF hnull \/ pub[p].desc = NULL \/ dnull THEN -1
    ELSE IF len >= region[pub[p].desc].slot_size - SizeofSlotHeader THEN -2
    ELSE 0

\* faulty variant: the data pointer is not tested
PubValidate_NoDataCheck(p, hnull, dnull, len) ==
    IF hnull \/ pub[p].desc = NULL THEN -1
    ELSE IF len > region[pub[p].desc].slot_size - SizeofSlotHeader THEN -2
    ELSE 0

\* argument checks shared by both publish functions; 0 = passed
PubValidate(p, hnull, dnull, len) ==
    IF hnull \/ pub[p].desc = NULL \/ dnull THEN -1
    ELSE IF len > region[pub[p].desc].slot_size - SizeofSlotHeader THEN -2
    ELSE 0

\* faulty variant: the generations are compared the wrong way round
GateSafe_Reversed(current_seq, commit_seq, slot_count) ==
    \/ current_seq = 0
    \/ (current_seq \div slot_count) > (commit_seq \div slot_count)

\* the MWMR generation gate: may a writer of commit_seq overwrite current_seq
GateSafe(current_seq, commit_seq, slot_count) ==
    \/ current_seq = 0
    \/ (current_seq \div slot_count) < (commit_seq \div slot_count)

PubSlot(p) == SlotIndex(pubf[p].commit_seq, pub[p].mask)

AfterGatePc(len) == IF len = 0 THEN "payload_len" ELSE "memcpy"

\* entry, argument checks and the fetch_add reservation; the model stops
\* reserving once w_head has reached cap
PubCallCap(p, hnull, dnull, d, len, cap) ==
    /\ pubf[p].pc = "idle"
    /\ LET rc == PubValidate(p, hnull, dnull, len) IN
       IF rc # 0
       THEN /\ last' = PubEvent(p, rc, IF rc = -1 THEN "invalid" ELSE "too_large", 0)
            /\ UNCHANGED <<w_head, granted, pubf>>
       ELSE LET o == pub[p].desc
                commit_seq == w_head[o] + 1
            IN  /\ w_head[o] < cap
                /\ w_head' = [w_head EXCEPT ![o] = FetchAddHead(@)]
                /\ pubf' = [pubf EXCEPT ![p] =
                      [pc |-> IF pub[p].is_mwmr THEN "gate" ELSE AfterGatePc(len),
                       data |-> PayloadOf(d, len), len |-> len,
                       commit_seq |-> commit_seq, k |-> 0, iter |-> 0]]
                /\ granted' = [granted EXCEPT ![o] =
                      Append(@, [seq |-> commit_seq, pub_id |-> pub[p].pub_id,
                                 len |-> len, data |-> PayloadOf(d, len)])]
                /\ last' = NoEvent
    /\ UNCHANGED <<shm_path, nobj, region, slot, pub, sub, subf, fac, delivered, core>>

PubCall(p, hnull, dnull, d, len) == PubCallCap(p, hnull, dnull, d, len, MaxSeq)

\* faulty variant: a call that gives up commits its sequence all the same
PubGate_TimeoutCommits(p) ==
    /\ pubf[p].pc = "gate"
    /\ LET o == pub[p].desc
           current_seq == slot[o][PubSlot(p)].seq
       IN  IF GateSafe(current_seq, pubf[p].commit_seq, region[o].slot_count)
           THEN /\ pubf' = [pubf EXCEPT ![p].pc = AfterGatePc(pubf[p].len)]
                /\ last' = NoEvent
                /\ UNCHANGED slot
           ELSE IF pubf[p].iter + 1 > max_iter
                THEN /\ pubf' = [pubf EXCEPT ![p] = IdlePubFrame]
                     /\ last' = PubEvent(p, -3, "timeout", pubf[p].commit_seq)
                     /\ slot' = [slot EXCEPT ![o][PubSlot(p)].seq = pubf[p].commit_seq]
                ELSE /\ pubf' = [pubf EXCEPT ![p].iter = @ + 1]
                     /\ last' = NoEvent
                     /\ UNCHANGED slot
    /\ UNCHANGED <<shm_path, nobj, region, w_head, pub, sub, subf, fac, granted, delivered, core>>

\* one iteration of the MWMR safety spin
PubGate(p) ==
    /\ pubf[p].pc = "gate"
    /\ LET o == pub[p].desc
           current_seq == slot[o][PubSlot(p)].seq
       IN  IF GateSafe(current_seq, pubf[p].commit_seq, region[o].slot_count)
           THEN /\ pubf' = [pubf EXCEPT ![p].pc = AfterGatePc(pubf[p].len)]
                /\ last' = NoEvent
           ELSE IF pubf[p].iter + 1 > max_iter
                THEN /\ pubf' = [pubf EXCEPT ![p] = IdlePubFrame]
                     /\ last' = PubEvent(p, -3, "timeout", pubf[p].commit_seq)
                ELSE /\ pubf' = [pubf EXCEPT ![p].iter = @ + 1]
                     /\ last' = NoEvent
    /\ UNCHANGED <<shared, pub, sub, subf, fac, granted, delivered, core>>

\* memcpy(slot + sizeof(SlotHeader), data, len), CopyChunk bytes a step
PubMemcpy(p) ==
    /\ pubf[p].pc = "memcpy"
    /\ LET o == pub[p].desc
           i == PubSlot(p)
           upto == Min(pubf[p].k + CopyChunk, pubf[p].len)
       IN  /\ slot' = [slot EXCEPT ![o][i].payload =
                  [k \in DOMAIN @ |->
                      IF k > pubf[p].k /\ k <= upto THEN pubf[p].data[k] ELSE @[k]]]
           /\ pubf' = [pubf EXCEPT ![p].k = upto,
                                   ![p].pc = IF upto = pubf[p].len THEN "payload_len" ELSE "memcpy"]
    /\ last' = NoEvent
    /\ UNCHANGED <<shm_path, nobj, region, w_head, pub, sub, subf, fac, granted, delivered, core>>

\* hdr->payload_len = len
PubStoreLen(p) ==
    /\ pubf[p].pc = "payload_len"
    /\ slot' = [slot EXCEPT ![pub[p].desc][PubSlot(p)].payload_len = pubf[p].len]
    /\ pubf' = [pubf EXCEPT ![p].pc = "pub_id"]
    /\ last' = NoEvent
    /\ UNCHANGED <<shm_path, nobj, region, w_head, pub, sub, subf, fac, granted, delivered, core>>

\* hdr->pub_id = p->pub_id (and the timestamp)
PubStorePubId(p) ==
    /\ pubf[p].pc = "pub_id"
    /\ slot' = [slot EXCEPT ![pub[p].desc][PubSlot(p)].pub_id = pub[p].pub_id]
    /\ pubf' = [pubf EXCEPT ![p].pc = "commit"]
    /\ last' = NoEvent
    /\ UNCHANGED <<shm_path, nobj, region, w_head, pub, sub, subf, fac, granted, delivered, core>>

\* faulty variant: the commit waits until every subscriber of the topic has
\* consumed the message the slot held
PubCommit_WaitReaders(p) ==
    /\ pubf[p].pc = "commit"
    /\ \A s \in Subs : sub[s].desc = pub[p].desc =>
          sub[s].last_seq >= pubf[p].commit_seq - region[pub[p].desc].slot_count
    /\ slot' = [slot EXCEPT ![pub[p].desc][PubSlot(p)].seq = pubf[p].commit_seq]
    /\ pubf' = [pubf EXCEPT ![p] = IdlePubFrame]
    /\ last' = PubEvent(p, 0, "ok", pubf[p].commit_seq)
    /\ UNCHANGED <<shm_path, nobj, region, w_head, pub, sub, subf, fac, granted, delivered, core>>

\* atomic_store_explicit(&hdr->seq, commit_seq, release); return 0
PubCommit(p) ==
    /\ pubf[p].pc = "commit"
    /\ slot' = [slot EXCEPT ![pub[p].desc][PubSlot(p)].seq = pubf[p].commit_seq]
    /\ pubf' = [pubf EXCEPT ![p] = IdlePubFrame]
    /\ last' = PubEvent(p, 0, "ok", pubf[p].commit_seq)
    /\ UNCHANGED <<shm_path, nobj, region, w_head, pub, sub, subf, fac, granted, delivered, core>>

(***************************************************************************)
(* Subscribe: usrl_sub_next                                                *)
(***************************************************************************)
\* is the reader a whole ring behind: w_head - next >= slot_count
Overrun(head, next, slot_count) == head - next >= slot_count

\* faulty variant: the jump lands one sequence too far
OverrunCursor_OffByOne(head, slot_count) == head - slot_count + 1

\* cursor after the overrun jump: new_start - 1, new_start = w_head - slot_count + 1
OverrunCursor(head, slot_count) == (head - slot_count + 1) - 1

\* cursor after a torn read was detected: the w_head loaded by this call
TornCursor(head) == head

\* cursor after the writer was found ahead (seq > next)
AheadCursor(seq) == seq - 1

\* faulty variant: a Truncated result leaves the cursor where it was
TruncCursor_Stay(next) == next - 1

\* cursor after a Truncated result
TruncCursor(next) == next

\* faulty variant: a delivered message moves the cursor one sequence too far
DeliverCursor_Ahead(next) == next + 1

\* faulty variant: a delivered message sends the cursor back to the start
DeliverCursor_Rewind(next) == 0

\* faulty variant: a delivered message leaves the cursor where it was
DeliverCursor_Stay(next) == next - 1

\* cursor after a delivered message
DeliverCursor(next) == next

\* does the seq re-loaded after the copy pass the seqlock check
PostSeqOk(post_seq, seq) == post_seq = seq

SubSlot(s) == SlotIndex(subf[s].next, sub[s].mask)

AfterCopyPc(want_id) == IF want_id THEN "pub_id" ELSE "post_seq"

\* entry, argument checks, load of w_head, empty test and overrun jump
SubCall(s, hnull, bnull, buf_len, want_id) ==
    /\ subf[s].pc = "idle"
    /\ IF hnull \/ sub[s].desc = NULL \/ bnull
       THEN /\ last' = SubEvent(s, -1, "invalid", 0)
            /\ UNCHANGED <<sub, subf>>
       ELSE LET o == sub[s].desc
                head == w_head[o]
                next == sub[s].last_seq + 1
                fr == [IdleSubFrame EXCEPT !.buf_len = buf_len, !.want_id = want_id,
                                           !.out_buf = [k \in 1..buf_len |-> 0],
                                           !.w_head = head, !.next = next,
                                           !.entry = sub[s].last_seq]
            IN  IF next > head
                THEN /\ last' = SubEvent(s, 0, "empty", 0)
                     /\ UNCHANGED <<sub, subf>>
                ELSE IF Overrun(head, next, region[o].slot_count)
                THEN /\ sub' = [sub EXCEPT ![s].last_seq = OverrunCursor(head, region[o].slot_count)]
                     /\ subf' = [subf EXCEPT ![s] =
                            [fr EXCEPT !.pc = "reload",
                                       !.next = OverrunCursor(head, region[o].slot_count) + 1]]
                     /\ last' = NoEvent
                ELSE /\ subf' = [subf EXCEPT ![s] = [fr EXCEPT !.pc = "load_seq"]]
                     /\ last' = NoEvent
                     /\ UNCHANGED sub
    /\ UNCHANGED <<shared, pub, pubf, fac, granted, delivered, core>>

\* re-load of w_head after the overrun jump
SubReload(s) ==
    /\ subf[s].pc = "reload"
    /\ LET head == w_head[sub[s].desc]
       IN  IF subf[s].next > head
           THEN /\ subf' = [subf EXCEPT ![s] = IdleSubFrame]
                /\ last' = SubEvent(s, 0, "overrun_empty", 0)
           ELSE /\ subf' = [subf EXCEPT ![s].w_head = head, ![s].pc = "load_seq"]
                /\ last' = NoEvent
    /\ UNCHANGED <<shared, pub, pubf, sub, fac, granted, delivered, core>>

\* faulty variant: a slot that is not yet committed is skipped
SubLoadSeq_SkipUncommitted(s) ==
    /\ subf[s].pc = "load_seq"
    /\ LET seq == slot[sub[s].desc][SubSlot(s)].seq
           next == subf[s].next
       IN  IF seq = 0 \/ seq < next
           THEN /\ sub' = [sub EXCEPT ![s].last_seq = next]
                /\ subf' = [subf EXCEPT ![s] = IdleSubFrame]
                /\ last' = SubEvent(s, 0, "not_committed", 0)
           ELSE IF seq > next
           THEN /\ sub' = [sub EXCEPT ![s].last_seq = AheadCursor(seq)]
                /\ subf' = [subf EXCEPT ![s] = IdleSubFrame]
                /\ last' = SubEvent(s, 0, "writer_ahead", 0)
           ELSE /\ subf' = [subf EXCEPT ![s].seq = seq, ![s].pc = "payload_len"]
                /\ last' = NoEvent
                /\ UNCHANGED sub
    /\ UNCHANGED <<shared, pub, pubf, fac, granted, delivered, core>>

\* acquire-load of the due slot's seq and the three-way test on it
SubLoadSeq(s) ==
    /\ subf[s].pc = "load_seq"
    /\ LET seq == slot[sub[s].desc][SubSlot(s)].seq
           next == subf[s].next
       IN  IF seq = 0 \/ seq < next
           THEN /\ subf' = [subf EXCEPT ![s] = IdleSubFrame]
                /\ last' = SubEvent(s, 0, "not_committed", 0)
                /\ UNCHANGED sub
           ELSE IF seq > next
           THEN /\ sub' = [sub EXCEPT ![s].last_seq = AheadCursor(seq)]
                /\ subf' = [subf EXCEPT ![s] = IdleSubFrame]
                /\ last' = SubEvent(s, 0, "writer_ahead", 0)
           ELSE /\ subf' = [subf EXCEPT ![s].seq = seq, ![s].pc = "payload_len"]
                /\ last' = NoEvent
                /\ UNCHANGED sub
    /\ UNCHANGED <<shared, pub, pubf, fac, granted, delivered, core>>

\* faulty variant: the cursor moved on a Truncated result is one cursor
\* shared by all subscribers of the topic
SubReadLen_SharedCursor(s) ==
    /\ subf[s].pc = "payload_len"
    /\ LET payload_len == slot[sub[s].desc][SubSlot(s)].payload_len
       IN  IF payload_len > subf[s].buf_len
           THEN /\ sub' = [t \in DOMAIN sub |->
                             [sub[t] EXCEPT !.last_seq = TruncCursor(subf[s].next)]]
                /\ subf' = [subf EXCEPT ![s] = IdleSubFrame]
                /\ last' = [SubEvent(s, -3, "trunc", subf[s].next) EXCEPT
                               !.buf_len = subf[s].buf_len,
                               !.out = subf[s].out_buf]
                /\ delivered' = [delivered EXCEPT ![s] =
                       Append(@, [seq |-> subf[s].next, kind |-> "trunc"])]
           ELSE /\ subf' = [subf EXCEPT ![s].payload_len = payload_len,
                                        ![s].pc = IF payload_len > 0 THEN "memcpy"
                                                  ELSE AfterCopyPc(subf[s].want_id)]
                /\ last' = NoEvent
                /\ UNCHANGED <<sub, delivered>>
    /\ UNCHANGED <<shared, pub, pubf, fac, granted, core>>

\* read of hdr->payload_len and the buffer-size test
SubReadLen(s) ==
    /\ subf[s].pc = "payload_len"
    /\ LET payload_len == slot[sub[s].desc][SubSlot(s)].payload_len
       IN  IF payload_len > subf[s].buf_len
           THEN /\ sub' = [sub EXCEPT ![s].last_seq = TruncCursor(subf[s].next)]
                /\ subf' = [subf EXCEPT ![s] = IdleSubFrame]
                /\ last' = [SubEvent(s, -3, "trunc", subf[s].next) EXCEPT
                               !.buf_len = subf[s].buf_len,
                               !.out = subf[s].out_buf]
                /\ delivered' = [delivered EXCEPT ![s] =
                       Append(@, [seq |-> subf[s].next, kind |-> "trunc"])]
           ELSE /\ subf' = [subf EXCEPT ![s].payload_len = payload_len,
                                        ![s].pc = IF payload_len > 0 THEN "memcpy"
                                                  ELSE AfterCopyPc(subf[s].want_id)]
                /\ last' = NoEvent
                /\ UNCHANGED <<sub, delivered>>
    /\ UNCHANGED <<shared, pub, pubf, fac, granted, core>>

\* memcpy(out_buf, slot + sizeof(SlotHeader), payload_len), CopyChunk bytes a step
SubMemcpy(s) ==
    /\ subf[s].pc = "memcpy"
    /\ LET src == slot[sub[s].desc][SubSlot(s)].payload
           upto == Min(subf[s].k + CopyChunk, subf[s].payload_len)
       IN  subf' = [subf EXCEPT
                ![s].out_buf = [k \in DOMAIN @ |->
                                   IF k > subf[s].k /\ k <= upto THEN src[k] ELSE @[k]],
                ![s].k = upto,
                ![s].pc = IF upto < subf[s].payload_len THEN "memcpy"
                          ELSE AfterCopyPc(subf[s].want_id)]
    /\ last' = NoEvent
    /\ UNCHANGED <<shared, pub, pubf, sub, fac, granted, delivered, core>>

\* if (out_pub_id) *out_pub_id = hdr->pub_id
SubReadPubId(s) ==
    /\ subf[s].pc = "pub_id"
    /\ subf' = [subf EXCEPT ![s].out_pub_id = slot[sub[s].desc][SubSlot(s)].pub_id,
                            ![s].pc = "post_seq"]
    /\ last' = NoEvent
    /\ UNCHANGED <<shared, pub, pubf, sub, fac, granted, delivered, core>>

\* faulty variant: a delivered message is marked consumed in its slot (seq
\* cleared), as a queue with destructive reads would do
SubPostSeq_Consume(s) ==
    /\ subf[s].pc = "post_seq"
    /\ LET post_seq == slot[sub[s].desc][SubSlot(s)].seq
       IN  IF ~PostSeqOk(post_seq, subf[s].seq)
           THEN /\ sub' = [sub EXCEPT ![s].last_seq = TornCursor(subf[s].w_head)]
                /\ last' = SubEvent(s, 0, "torn", 0)
                /\ UNCHANGED <<delivered, slot>>
           ELSE /\ sub' = [sub EXCEPT ![s].last_seq = DeliverCursor(subf[s].next)]
                /\ slot' = [slot EXCEPT ![sub[s].desc][SubSlot(s)].seq = 0]
                /\ last' = [SubEvent(s, subf[s].payload_len, "msg", subf[s].next) EXCEPT
                               !.buf_len = subf[s].buf_len,
                               !.out = [k \in 1..subf[s].payload_len |-> subf[s].out_buf[k]],
                               !.want_id = subf[s].want_id,
                               !.out_pub_id = subf[s].out_pub_id]
                /\ delivered' = [delivered EXCEPT ![s] =
                       Append(@, [seq |-> subf[s].next, kind |-> "msg"])]
    /\ subf' = [subf EXCEPT ![s] = IdleSubFrame]
    /\ UNCHANGED <<shm_path, nobj, region, w_head, pub, pubf, fac, granted, core>>

\* re-load of seq after the copy, torn-read test, and the two returns
SubPostSeq(s) ==
    /\ subf[s].pc = "post_seq"
    /\ LET post_seq == slot[sub[s].desc][SubSlot(s)].seq
       IN  IF ~PostSeqOk(post_seq, subf[s].seq)
           THEN /\ sub' = [sub EXCEPT ![s].last_seq = TornCursor(subf[s].w_head)]
                /\ last' = SubEvent(s, 0, "torn", 0)
                /\ UNCHANGED delivered
           ELSE /\ sub' = [sub EXCEPT ![s].last_seq = DeliverCursor(subf[s].next)]
                /\ last' = [SubEvent(s, subf[s].payload_len, "msg", subf[s].next) EXCEPT
                               !.buf_len = subf[s].buf_len,
                               !.out = [k \in 1..subf[s].payload_len |-> subf[s].out_buf[k]],
                               !.want_id = subf[s].want_id,
                               !.out_pub_id = subf[s].out_pub_id]
                /\ delivered' = [delivered EXCEPT ![s] =
                       Append(@, [seq |-> subf[s].next, kind |-> "msg"])]
    /\ subf' = [subf EXCEPT ![s] = IdleSubFrame]
    /\ UNCHANGED <<shared, pub, pubf, fac, granted, core>>

(***************************************************************************)
(* Region builder and facade: usrl_core_init, usrl_core_map,               *)
(* usrl_pub_create, usrl_sub_create                                        *)
(***************************************************************************)
FacEvent(h, op, rc, path) ==
    [NoEvent EXCEPT !.who = h, !.op = op, !.rc = rc, !.path = path]

\* usrl__shm_object_size_bytes(shm_path): st_size of the object at the path,
\* 0 when shm_open fails
usrl__shm_object_size_bytes == IF shm_path = NULL THEN 0 ELSE region[shm_path].size

\* usrl_pub_create up to the first shared access of usrl_core_init:
\* shm_unlink(path)
CoreUnlink(h, cfg) ==
    /\ fac[h].pc = "idle"
    /\ nobj + Cardinality({g \in Pubs : fac[g].pc = "open"}) < MaxObjects
    /\ shm_path' = NULL
    /\ fac' = [fac EXCEPT ![h] = [IdleFac EXCEPT !.pc = "open", !.cfg = cfg,
                                                 !.existed = (shm_path # NULL)]]
    /\ last' = NoEvent
    /\ UNCHANGED <<nobj, region, w_head, slot, pub, pubf, sub, subf, granted, delivered, core>>

\* shm_open(path, O_CREAT | O_RDWR | O_EXCL): a new, empty object, or -1
CoreOpen(h) ==
    /\ fac[h].pc = "open"
    /\ IF shm_path # NULL
       THEN /\ fac' = [fac EXCEPT ![h].pc = "failed"]
            /\ last' = FacEvent(h, "core_init", -1,
                                IF fac[h].existed THEN "existed" ELSE "fresh")
            /\ UNCHANGED <<shm_path, nobj, region>>
       ELSE /\ nobj' = nobj + 1
            /\ shm_path' = nobj + 1
            /\ region' = [region EXCEPT ![nobj + 1] = NoRegion]
            /\ fac' = [fac EXCEPT ![h].pc = "truncate", ![h].fd = nobj + 1]
            /\ last' = NoEvent
    /\ UNCHANGED <<w_head, slot, pub, pubf, sub, subf, granted, delivered, core>>

\* ftruncate(fd, size), mmap and memset(base, 0, size)
CoreTruncate(h) ==
    /\ fac[h].pc = "truncate"
    /\ region' = [region EXCEPT ![fac[h].fd].size = 1]
    /\ fac' = [fac EXCEPT ![h].pc = "build"]
    /\ last' = NoEvent
    /\ UNCHANGED <<shm_path, nobj, w_head, slot, pub, pubf, sub, subf, granted, delivered, core>>

\* header, topic table, ring descriptor and slot headers; munmap, return 0
CoreBuild(h) ==
    /\ fac[h].pc = "build"
    /\ region' = [region EXCEPT ![fac[h].fd] = BuiltRegion(fac[h].cfg)]
    /\ slot' = [slot EXCEPT ![fac[h].fd] = BuiltSlots(fac[h].cfg)]
    /\ w_head' = [w_head EXCEPT ![fac[h].fd] = 0]
    /\ fac' = [fac EXCEPT ![h].pc = "size"]
    /\ last' = FacEvent(h, "core_init", 0, IF fac[h].existed THEN "existed" ELSE "fresh")
    /\ UNCHANGED <<shm_path, nobj, pub, pubf, sub, subf, granted, delivered, core>>

\* usrl_pub_create: obj_size = usrl__shm_object_size_bytes(shm_path)
PubCreateSize(h) ==
    /\ fac[h].pc = "size"
    /\ IF usrl__shm_object_size_bytes = 0
       THEN /\ fac' = [fac EXCEPT ![h].pc = "failed"]
            /\ last' = FacEvent(h, "pub_create", NULL, "no_object")
       ELSE /\ fac' = [fac EXCEPT ![h].pc = "map"]
            /\ last' = NoEvent
    /\ UNCHANGED <<shared, pub, pubf, sub, subf, granted, delivered, core>>

\* usrl_sub_create: map_size = usrl__shm_object_size_bytes(shm_path)
SubCreateSize(h) ==
    /\ fac[h].pc = "idle"
    /\ IF usrl__shm_object_size_bytes = 0
       THEN /\ fac' = [fac EXCEPT ![h].pc = "failed"]
            /\ last' = FacEvent(h, "sub_create", NULL, "no_object")
       ELSE /\ fac' = [fac EXCEPT ![h].pc = "map"]
            /\ last' = NoEvent
    /\ UNCHANGED <<shared, pub, pubf, sub, subf, granted, delivered, core>>

\* usrl_core_map(shm_path, size): the object the path names now
usrl_core_map(h) ==
    /\ fac[h].pc = "map"
    /\ IF shm_path = NULL
       THEN /\ fac' = [fac EXCEPT ![h].pc = "failed"]
            /\ last' = FacEvent(h, IF h \in Pubs THEN "pub_create" ELSE "sub_create",
                                NULL, "map_failed")
       ELSE /\ fac' = [fac EXCEPT ![h].pc = "bind", ![h].base = shm_path]
            /\ last' = NoEvent
    /\ UNCHANGED <<shared, pub, pubf, sub, subf, granted, delivered, core>>

\* usrl_pub_create: usrl_mwmr_pub_init or usrl_pub_init on the mapping; the
\* handle is returned whatever the init call did
PubCreateBind(h) ==
    /\ h \in Pubs
    /\ fac[h].pc = "bind"
    /\ pub' = [pub EXCEPT ![h] =
          usrl_pub_init(@, fac[h].base, fac[h].cfg.type = USRL_RING_TYPE_MWMR, PubIdOf(h))]
    /\ fac' = [fac EXCEPT ![h].pc = "done"]
    /\ last' = FacEvent(h, "pub_create", fac[h].base, "created")
    /\ UNCHANGED <<shared, pubf, sub, subf, granted, delivered, core>>

\* usrl_sub_create: usrl_sub_init on the mapping
SubCreateBind(h) ==
    /\ h \in Subs
    /\ fac[h].pc = "bind"
    /\ sub' = [sub EXCEPT ![h] = usrl_sub_init(@, fac[h].base)]
    /\ fac' = [fac EXCEPT ![h].pc = "done"]
    /\ last' = FacEvent(h, "sub_create", fac[h].base, "created")
    /\ UNCHANGED <<shared, pub, pubf, subf, granted, delivered, core>>

(***************************************************************************)
(* usrl_core_init step by step on a list of topic configurations           *)
(***************************************************************************)
CoreEvent(rc, path) == FacEvent("init", "core_init", rc, path)

\* entry and argument check, then shm_unlink, shm_open, ftruncate, mmap and
\* memset(base, 0, size)
CoreInitCall(pnull, tnull, size, topics) ==
    /\ core.pc = "idle"
    /\ IF pnull \/ size < MinRegionSize \/ tnull \/ Len(topics) = 0
       THEN /\ core' = [core EXCEPT !.size = size, !.topics = topics,
                                    !.ncalls = @ + 1, !.rc = -1]
            /\ last' = CoreEvent(-1, "invalid")
       ELSE /\ core' = [core EXCEPT !.pc = "magic", !.size = size,
                                    !.topics = topics, !.i = 0,
                                    !.ncalls = @ + 1, !.img = ZeroImage(size)]
            /\ last' = NoEvent
    /\ UNCHANGED <<shared, pub, pubf, sub, subf, fac, granted, delivered>>

\* hdr->magic = USRL_MAGIC; version; mmap_size
CoreInitMagic ==
    /\ core.pc = "magic"
    /\ core' = [core EXCEPT !.pc = "table", !.img.magic = TRUE,
                            !.img.version = 1]
    /\ last' = NoEvent
    /\ UNCHANGED <<shared, pub, pubf, sub, subf, fac, granted, delivered>>

\* faulty variant: the slot arrays start where the descriptor array starts
CoreInitTable_NoDescArray ==
    /\ core.pc = "table"
    /\ LET count == Len(core.topics)
           current_offset == usrl_align_up(SizeofCoreHeader, USRL_ALIGNMENT)
           ring_desc_start ==
               usrl_align_up(current_offset + SizeofTopicEntry * count, USRL_ALIGNMENT)
       IN  core' = [core EXCEPT !.pc = "entry",
                                !.img.topic_table_offset = current_offset,
                                !.img.topic_count = count,
                                !.ring_desc_start = ring_desc_start,
                                !.next_free_slot_offset = ring_desc_start]
    /\ last' = NoEvent
    /\ UNCHANGED <<shared, pub, pubf, sub, subf, fac, granted, delivered>>

\* topic_table_offset, topic_count and the start offsets of the ring
\* descriptor array and of the slot arrays
CoreInitTable ==
    /\ core.pc = "table"
    /\ LET count == Len(core.topics)
           current_offset == usrl_align_up(SizeofCoreHeader, USRL_ALIGNMENT)
           ring_desc_start ==
               usrl_align_up(current_offset + SizeofTopicEntry * count, USRL_ALIGNMENT)
           slots_start ==
               usrl_align_up(ring_desc_start + SizeofRingDesc * count, USRL_ALIGNMENT)
       IN  core' = [core EXCEPT !.pc = "entry",
                                !.img.topic_table_offset = current_offset,
                                !.img.topic_count = count,
                                !.ring_desc_start = ring_desc_start,
                                !.next_free_slot_offset = slots_start]
    /\ last' = NoEvent
    /\ UNCHANGED <<shared, pub, pubf, sub, subf, fac, granted, delivered>>

slots_pow2(cfg) == next_power_of_two_u32(cfg.slot_count)

slot_sz_aligned(cfg) == usrl_align_up(SizeofSlotHeader + cfg.slot_size, USRL_SLOT_ALIGN)

\* 1. fill the TopicEntry of topic i
CoreInitEntry ==
    /\ core.pc = "entry"
    /\ LET cfg == core.topics[core.i + 1]
       IN  core' = [core EXCEPT !.pc = "desc",
                      !.img.table = Append(@,
                          [name |-> cfg.name,
                           ring_desc_offset |-> core.ring_desc_start + core.i * SizeofRingDesc,
                           slot_count |-> slots_pow2(cfg),
                           slot_size |-> slot_sz_aligned(cfg),
                           type |-> cfg.type])]
    /\ last' = NoEvent
    /\ UNCHANGED <<shared, pub, pubf, sub, subf, fac, granted, delivered>>

\* 2. fill the RingDesc of topic i
CoreInitDesc ==
    /\ core.pc = "desc"
    /\ LET cfg == core.topics[core.i + 1]
       IN  core' = [core EXCEPT !.pc = "reserve",
                      !.img.desc = Append(@,
                          [slot_count |-> slots_pow2(cfg),
                           slot_size |-> slot_sz_aligned(cfg),
                           base_offset |-> core.next_free_slot_offset,
                           w_head |-> 0])]
    /\ last' = NoEvent
    /\ UNCHANGED <<shared, pub, pubf, sub, subf, fac, granted, delivered>>

\* faulty variant: a slot array that ends exactly at size is refused
CoreInitReserve_OffByOne ==
    /\ core.pc = "reserve"
    /\ LET cfg == core.topics[core.i + 1]
           total_bytes_for_topic == slots_pow2(cfg) * slot_sz_aligned(cfg)
       IN  IF core.next_free_slot_offset + total_bytes_for_topic >= core.size
           THEN /\ core' = [core EXCEPT !.pc = "idle", !.rc = -4]
                /\ last' = CoreEvent(-4, "oom")
           ELSE LET done == core.i + 1 = Len(core.topics)
                IN  /\ core' = [core EXCEPT
                          !.img.seq_init = @ \cup {core.i + 1},
                          !.next_free_slot_offset =
                              usrl_align_up(@ + total_bytes_for_topic, USRL_ALIGNMENT),
                          !.i = @ + 1,
                          !.pc = IF done THEN "idle" ELSE "entry",
                          !.rc = IF done THEN 0 ELSE @]
                    /\ last' = IF done THEN CoreEvent(0, "built") ELSE NoEvent
    /\ UNCHANGED <<shared, pub, pubf, sub, subf, fac, granted, delivered>>

\* 3. the out-of-memory check, the slot headers of topic i, the offset of
\* the next topic; after the last topic munmap, close and return 0
CoreInitReserve ==
    /\ core.pc = "reserve"
    /\ LET cfg == core.topics[core.i + 1]
           total_bytes_for_topic == slots_pow2(cfg) * slot_sz_aligned(cfg)
       IN  IF core.next_free_slot_offset + total_bytes_for_topic > core.size
           THEN /\ core' = [core EXCEPT !.pc = "idle", !.rc = -4]
                /\ last' = CoreEvent(-4, "oom")
           ELSE LET done == core.i + 1 = Len(core.topics)
                IN  /\ core' = [core EXCEPT
                          !.img.seq_init = @ \cup {core.i + 1},
                          !.next_free_slot_offset =
                              usrl_align_up(@ + total_bytes_for_topic, USRL_ALIGNMENT),
                          !.i = @ + 1,
                          !.pc = IF done THEN "idle" ELSE "entry",
                          !.rc = IF done THEN 0 ELSE @]
                    /\ last' = IF done THEN CoreEvent(0, "built") ELSE NoEvent
    /\ UNCHANGED <<shared, pub, pubf, sub, subf, fac, granted, delivered>>

(***************************************************************************)
(* Facade send: usrl_pub_send and the fixed-window rate limiter            *)
(***************************************************************************)
\* return codes of the publish functions as the facade names them
USRL_RING_OK == 0
USRL_RING_FULL == -2
USRL_RING_TIMEOUT == -3

\* window length usrl_quota_init sets: 1 ms
PublishWindowNs == 1000000

\* usrl_quota_init(quota, msgs_per_sec); WordMax stands for UINT64_MAX
usrl_quota_init(msgs_per_sec) ==
    [ZeroQuota EXCEPT
        !.publish_window_ns = PublishWindowNs,
        !.publish_quota =
            IF msgs_per_sec = 0 THEN WordMax
            ELSE IF (msgs_per_sec + 999) \div 1000 = 0 THEN 1
            ELSE (msgs_per_sec + 999) \div 1000]

\* the handle usrl_pub_create returns for a config with these two fields
NewSend(rate_limit_hz, block_on_full) ==
    [IdleSend EXCEPT
        !.block_on_full = block_on_full,
        !.use_limiter = rate_limit_hz > 0,
        !.quota = IF rate_limit_hz > 0 THEN usrl_quota_init(rate_limit_hz) ELSE ZeroQuota]

\* the window roll of usrl_quota_check at clock reading now
QuotaWindow(quota, now) ==
    IF now - quota.last_window_start_ns > quota.publish_window_ns
    THEN [quota EXCEPT !.last_window_start_ns = now, !.msgs_in_window = 0]
    ELSE quota

\* faulty variant: an allowed message is not counted
usrl_quota_check_NoCount(quota, now) ==
    LET q == QuotaWindow(quota, now)
    IN  IF q.msgs_in_window >= q.publish_quota
        THEN [rc |-> 1, quota |-> [q EXCEPT !.total_throttled = @ + 1]]
        ELSE [rc |-> 0, quota |-> q]

\* usrl_quota_check(quota) at clock reading now: 1 = throttled, 0 = allowed
usrl_quota_check(quota, now) ==
    LET q == QuotaWindow(quota, now)
    IN  IF q.msgs_in_window >= q.publish_quota
        THEN [rc |-> 1, quota |-> [q EXCEPT !.total_throttled = @ + 1]]
        ELSE [rc |-> 0, quota |-> [q EXCEPT !.msgs_in_window = @ + 1]]

\* history record of one usrl_pub_send call: the clock it read, the window
\* it fell into, what the limiter said, whether it went on to publish, the
\* length it carried and what it returned (1 = not returned yet)
SendRecord(now, start, throttled, published, len, rc) ==
    [now |-> now, start |-> start, throttled |-> throttled,
     published |-> published, len |-> len, rc |-> rc]

\* entry of usrl_pub_send up to the publish call: argument check and the
\* limiter; now is the reading of CLOCK_MONOTONIC, not before the last one
SendCall(p, pnull, dnull, now, len, maxsends) ==
    /\ fac[p].send.spc = "idle"
    /\ pubf[p].pc = "idle"
    /\ Len(fac[p].send.sends) < maxsends
    /\ now >= fac[p].send.now
    /\ IF pnull \/ dnull
       THEN /\ last' = FacEvent(p, "pub_send", -1, "invalid")
            /\ UNCHANGED fac
       ELSE LET h == fac[p].send
                c == IF h.use_limiter THEN usrl_quota_check(h.quota, now)
                     ELSE [rc |-> 0, quota |-> h.quota]
                drop == c.rc = 1 /\ ~h.block_on_full
            IN  /\ fac' = [fac EXCEPT ![p].send =
                      [h EXCEPT !.quota = c.quota,
                                !.now = now,
                                !.len = len,
                                !.local_drops = IF drop THEN @ + 1 ELSE @,
                                !.spc = IF drop THEN "idle" ELSE "publish",
                                !.sends = Append(@, SendRecord(now, c.quota.last_window_start_ns,
                                                               c.rc = 1, ~drop, len,
                                                               IF drop THEN -1 ELSE 1))]]
                /\ last' = IF drop THEN FacEvent(p, "pub_send", -1, "throttled") ELSE NoEvent
    /\ UNCHANGED <<shared, pub, pubf, sub, subf, granted, delivered, core>>

\* has the publish call of the running usrl_pub_send returned
PublishReturned(p) == pubf[p].pc = "idle" /\ last.who = p /\ last.op = "publish"

\* the publish call of usrl_pub_send: the entry step of usrl_pub_publish or
\* usrl_mwmr_pub_publish with the caller's data and length
SendPublishCall(p, cap) ==
    /\ fac[p].send.spc = "publish"
    /\ ~PublishReturned(p)
    /\ PubCallCap(p, FALSE, FALSE, PubIdOf(p), fac[p].send.len, cap)

\* after the publish call: retry while blocking, else count a drop for
\* USRL_RING_FULL and return 0 or -1
SendReturn(p) ==
    /\ fac[p].send.spc = "publish"
    /\ PublishReturned(p)
    /\ LET h == fac[p].send
           res == last.rc
           again == /\ h.block_on_full
                    /\ \/ res = USRL_RING_FULL
                       \/ pub[p].is_mwmr /\ res = USRL_RING_TIMEOUT
           rc == IF res = USRL_RING_OK THEN 0 ELSE -1
       IN  IF again
           THEN /\ last' = NoEvent
                /\ UNCHANGED fac
           ELSE /\ fac' = [fac EXCEPT ![p].send =
                      [h EXCEPT !.spc = "idle",
                                !.local_drops = IF res = USRL_RING_FULL THEN @ + 1 ELSE @,
                                !.sends = [@ EXCEPT ![Len(@)].rc = rc]]]
                /\ last' = [FacEvent(p, "pub_send", rc, IF rc = 0 THEN "sent" ELSE "failed")
                               EXCEPT !.seq = last.seq]
    /\ UNCHANGED <<shared, pub, pubf, sub, subf, granted, delivered, core>>

\* usrl_core_map(path, size): shm_open and mmap of the object at the path
AttachMap ==
    /\ core.pc = "idle"
    /\ IF ~core.img.exists
       THEN /\ last' = FacEvent("attach", "core_map", NULL, "no_object")
            /\ UNCHANGED core
       ELSE /\ core' = [core EXCEPT !.pc = "mapped"]
            /\ last' = FacEvent("attach", "core_map", 1, "mapped")
    /\ UNCHANGED <<shared, pub, pubf, sub, subf, fac, granted, delivered>>

\* usrl_get_topic(base, name) on the mapping
AttachLookup(name) ==
    /\ core.pc = "mapped"
    /\ LET t == usrl_get_topic(core.img, name)
       IN  last' = [FacEvent("attach", "get_topic", t,
                             IF t = NULL THEN "miss" ELSE "hit")
                       EXCEPT !.out = <<name>>]
    /\ UNCHANGED <<shared, pub, pubf, sub, subf, fac, granted, delivered, core>>

\* munmap(base, size)
AttachUnmap ==
    /\ core.pc = "mapped"
    /\ core' = [core EXCEPT !.pc = "idle"]
    /\ last' = NoEvent
    /\ UNCHANGED <<shared, pub, pubf, sub, subf, fac, granted, delivered>>

\* the calls of usrl_core_init: topic lists of up to MaxTopics entries whose
\* slot arrays fall short of, meet and pass the region sizes, and a retry of
\* a list that was refused with -4 under a larger size
MaxTopics == 2
MaxCalls == 2

CoreNames == {"a", "b"}
CoreSlotCounts == {0, 1, 32}
CorePayloads == {8, 96, 104, 3632}
CoreSizes == {MinRegionSize - 1, MinRegionSize, 2 * MinRegionSize}

CoreCfgs == [name : CoreNames, slot_count : CoreSlotCounts,
             slot_size : CorePayloads, type : {USRL_RING_TYPE_SWMR}]

TopicLists == UNION {[1..n -> CoreCfgs] : n \in 0..MaxTopics}

CoreFirstCall ==
    /\ core.ncalls = 0
    /\ \E size \in CoreSizes, topics \in TopicLists :
          CoreInitCall(FALSE, FALSE, size, topics)

CoreNullCall ==
    /\ core.ncalls = 0
    /\ \E pnull, tnull \in BOOLEAN, cfg \in CoreCfgs :
          /\ pnull \/ tnull
          /\ CoreInitCall(pnull, tnull, MinRegionSize, <<cfg>>)

CoreRetry ==
    /\ core.ncalls \in 1..(MaxCalls - 1)
    /\ core.rc = -4
    /\ \E size \in CoreSizes :
          /\ size > core.size
          /\ CoreInitCall(FALSE, FALSE, size, core.topics)

NextCore ==
    \/ CoreFirstCall
    \/ CoreNullCall
    \/ CoreRetry
    \/ CoreInitMagic
    \/ CoreInitTable
    \/ CoreInitEntry
    \/ CoreInitDesc
    \/ CoreInitReserve

(***************************************************************************)
(* The ring protocol: handles bound to one built region                    *)
(***************************************************************************)

\* lengths a caller passes, given the slot's payload capacity
Lens(cap) == {0, cap, cap + 1}
\* buffer lengths a subscriber passes
BufLens(cap) == {1, cap}

\* state after usrl_core_init(cfg), usrl_pub_init / usrl_mwmr_pub_init for
\* the publishers in bp and usrl_sub_init for the subscribers in bs
RingInitFac(cfg, bp, bs, handles) ==
    /\ shm_path = 1
    /\ nobj = 1
    /\ region = [o \in Objects |-> IF o = 1 THEN BuiltRegion(cfg) ELSE NoRegion]
    /\ w_head = [o \in Objects |-> 0]
    /\ slot = [o \in Objects |-> IF o = 1 THEN BuiltSlots(cfg) ELSE <<>>]
    /\ pub = [p \in Pubs |->
                IF p \in bp
                THEN usrl_pub_init(UnboundPub, 1, cfg.type = USRL_RING_TYPE_MWMR, PubIdOf(p))
                ELSE UnboundPub]
    /\ sub = [s \in Subs |-> IF s \in bs THEN usrl_sub_init(UnboundSub, 1) ELSE UnboundSub]
    /\ pubf = [p \in Pubs |-> IdlePubFrame]
    /\ subf = [s \in Subs |-> IdleSubFrame]
    /\ fac = handles
    /\ last = NoEvent
    /\ granted = [o \in Objects |-> <<>>]
    /\ delivered = [s \in Subs |-> <<>>]
    /\ core = IdleCore

\* the handles are bound to the ring by the core API: no facade handle exists
RingInit(cfg, bp, bs) == RingInitFac(cfg, bp, bs, [h \in Pubs \cup Subs |-> NULL])

\* payload capacity of the slots of the ring RingInit builds (object 1)
RingCap == capacity(1)

SwmrConfigs == [type : {USRL_RING_TYPE_SWMR}, slot_count : 1..MaxSlotReq, slot_size : {ReqPayload}]
MwmrConfigs == [type : {USRL_RING_TYPE_MWMR}, slot_count : 1..MaxSlotReq, slot_size : {ReqPayload}]

\* argument tuples of a publish call: every data value and length with
\* non-null pointers, and every combination of null pointers
PubArgs(cap) ==
    [hnull : {FALSE}, dnull : {FALSE}, d : 1..MaxData, len : Lens(cap)]
    \cup [hnull : BOOLEAN, dnull : BOOLEAN, d : {MaxData}, len : {cap}]

\* argument tuples of a usrl_sub_next call
SubArgs(cap) ==
    [hnull : {FALSE}, bnull : {FALSE}, buf_len : BufLens(cap), want_id : BOOLEAN]
    \cup [hnull : BOOLEAN, bnull : BOOLEAN, buf_len : {cap}, want_id : {TRUE}]

PubCallAny(p) ==
    \E a \in PubArgs(RingCap) : PubCall(p, a.hnull, a.dnull, a.d, a.len)

SubCallAny(s) ==
    \E a \in SubArgs(RingCap) : SubCall(s, a.hnull, a.bnull, a.buf_len, a.want_id)

SubStep(s) ==
    \/ SubCallAny(s)
    \/ SubReload(s)
    \/ SubLoadSeq(s)
    \/ SubReadLen(s)
    \/ SubMemcpy(s)
    \/ SubReadPubId(s)
    \/ SubPostSeq(s)

PubStep(p) ==
    \/ PubCallAny(p)
    \/ PubGate(p)
    \/ PubMemcpy(p)
    \/ PubStoreLen(p)
    \/ PubStorePubId(p)
    \/ PubCommit(p)

\* One publisher p1 and one subscriber s1 bound to a SWMR or a MWMR ring;
\* p2 and s2 are zero-initialised handles that were never bound.
Init == \E cfg \in SwmrConfigs \cup MwmrConfigs : RingInit(cfg, {"p1"}, {"s1"})

Next ==
    \/ \E p \in Pubs : PubStep(p)
    \/ \E s \in Subs : SubStep(s)

Spec == Init /\ [][Next]_vars

\* Two publishers bound to a SWMR or a MWMR ring, no subscriber; each sends
\* its own id as payload bytes, in every length of Lens.
InitPubs == \E cfg \in SwmrConfigs \cup MwmrConfigs : RingInit(cfg, {"p1", "p2"}, {})

PubCallLens(p) ==
    \E len \in Lens(RingCap) : PubCall(p, FALSE, FALSE, PubIdOf(p), len)

LensPubStep(p) ==
    \/ PubCallLens(p)
    \/ PubGate(p)
    \/ PubMemcpy(p)
    \/ PubStoreLen(p)
    \/ PubStorePubId(p)
    \/ PubCommit(p)

NextPubs == \E p \in Pubs : LensPubStep(p)

SpecPubs == InitPubs /\ [][NextPubs]_vars

\* two publishers and no subscriber, one sequence more than in the other
\* specifications
DrainSeq == MaxSeq + 1

PubCallDrain(p) ==
    \E len \in Lens(RingCap) : PubCallCap(p, FALSE, FALSE, PubIdOf(p), len, DrainSeq)

DrainPubStep(p) ==
    \/ PubCallDrain(p)
    \/ PubGate(p)
    \/ PubMemcpy(p)
    \/ PubStoreLen(p)
    \/ PubStorePubId(p)
    \/ PubCommit(p)

InitDrain == \E cfg \in MwmrConfigs : RingInit(cfg, {"p1", "p2"}, {})

NextDrain == \E p \in Pubs : DrainPubStep(p)

SpecDrain == InitDrain /\ [][NextDrain]_vars

\* valid calls only: each publisher sends its own id as payload bytes
PubCallValid(p) ==
    \E len \in {0, RingCap} : PubCall(p, FALSE, FALSE, PubIdOf(p), len)

SubCallValid(s) ==
    \E buf_len \in BufLens(RingCap) : SubCall(s, FALSE, FALSE, buf_len, TRUE)

OrderPubStep(p) ==
    \/ PubCallValid(p)
    \/ PubGate(p)
    \/ PubMemcpy(p)
    \/ PubStoreLen(p)
    \/ PubStorePubId(p)
    \/ PubCommit(p)

OrderSubStep(s) ==
    \/ SubCallValid(s)
    \/ SubReload(s)
    \/ SubLoadSeq(s)
    \/ SubReadLen(s)
    \/ SubMemcpy(s)
    \/ SubReadPubId(s)
    \/ SubPostSeq(s)

\* One subscriber with one SWMR publisher or with two MWMR publishers.
InitOrder ==
    \/ \E cfg \in SwmrConfigs : RingInit(cfg, {"p1"}, {"s1"})
    \/ \E cfg \in MwmrConfigs : RingInit(cfg, {"p1", "p2"}, {"s1"})

NextOrder ==
    \/ \E p \in {q \in Pubs : pub[q].desc # NULL} : OrderPubStep(p)
    \/ OrderSubStep("s1")

SpecOrder == InitOrder /\ [][NextOrder]_vars

\* calls the functions refuse for their arguments: a null handle, a null
\* data or output pointer, or a handle that was never bound to a ring
PubCallBad(p) ==
    \E a \in PubArgs(RingCap) :
        /\ a.hnull \/ a.dnull \/ pub[p].desc = NULL
        /\ PubCall(p, a.hnull, a.dnull, a.d, a.len)

SubCallBad(s) ==
    \E a \in SubArgs(RingCap) :
        /\ a.hnull \/ a.bnull \/ sub[s].desc = NULL
        /\ SubCall(s, a.hnull, a.bnull, a.buf_len, a.want_id)

\* The ring of Init, driven by full-capacity publishes of p1 and full-buffer
\* reads of s1, interleaved with refused calls on all four handles.
InitArgs == \E cfg \in SwmrConfigs \cup MwmrConfigs : RingInit(cfg, {"p1"}, {"s1"})

ArgsPubStep(p) ==
    \/ PubCall(p, FALSE, FALSE, PubIdOf(p), RingCap)
    \/ PubGate(p)
    \/ PubMemcpy(p)
    \/ PubStoreLen(p)
    \/ PubStorePubId(p)
    \/ PubCommit(p)

ArgsSubStep(s) ==
    \/ SubCall(s, FALSE, FALSE, RingCap, TRUE)
    \/ SubReload(s)
    \/ SubLoadSeq(s)
    \/ SubReadLen(s)
    \/ SubMemcpy(s)
    \/ SubReadPubId(s)
    \/ SubPostSeq(s)

NextArgs ==
    \/ ArgsPubStep("p1")
    \/ ArgsSubStep("s1")
    \/ \E p \in Pubs : PubCallBad(p)
    \/ \E s \in Subs : SubCallBad(s)

SpecArgs == InitArgs /\ [][NextArgs]_vars

\* a publisher that reserves sequence C = w_head + 1 only when subscriber s
\* has consumed C - slot_count, sending 1..capacity bytes
FlowPubCall(p, s) ==
    \E d \in 1..MaxData, len \in {1, RingCap} :
        /\ pub[p].desc # NULL
        /\ sub[s].last_seq >= (w_head[pub[p].desc] + 1) - region[pub[p].desc].slot_count
        /\ PubCall(p, FALSE, FALSE, d, len)

FlowPubStep(p, s) ==
    \/ FlowPubCall(p, s)
    \/ PubGate(p)
    \/ PubMemcpy(p)
    \/ PubStoreLen(p)
    \/ PubStorePubId(p)
    \/ PubCommit(p)

\* One publisher and one subscriber, both initialised before the first
\* publish, the publisher never rewriting a slot the subscriber has not
\* consumed.
InitFlow == \E cfg \in SwmrConfigs \cup MwmrConfigs : RingInit(cfg, {"p1"}, {"s1"})

\* usrl_sub_next without the step after the overrun jump: under this
\* publisher the jump is never taken (C4_ConsumedGapless checks that the
\* call never stands at "reload")
FlowSubStep(s) ==
    \/ SubCallValid(s)
    \/ SubLoadSeq(s)
    \/ SubReadLen(s)
    \/ SubMemcpy(s)
    \/ SubReadPubId(s)
    \/ SubPostSeq(s)

NextFlow ==
    \/ FlowPubStep("p1", "s1")
    \/ FlowSubStep("s1")

SpecFlow == InitFlow /\ [][NextFlow]_vars

\* the topic configs the facade's callers use for the one topic
FacConfigs == [type : {USRL_RING_TYPE_SWMR, USRL_RING_TYPE_MWMR},
               slot_count : {MaxSlotReq}, slot_size : {ReqPayload}]

usrl_pub_create(h) ==
    \/ \E cfg \in FacConfigs : CoreUnlink(h, cfg)
    \/ CoreOpen(h)
    \/ CoreTruncate(h)
    \/ CoreBuild(h)
    \/ PubCreateSize(h)
    \/ usrl_core_map(h)
    \/ PubCreateBind(h)

usrl_sub_create(h) ==
    \/ SubCreateSize(h)
    \/ usrl_core_map(h)
    \/ SubCreateBind(h)

\* traffic on the created handles: full-capacity messages, full-size buffers
FacPubStep(p) ==
    \/ PubCall(p, FALSE, FALSE, PubIdOf(p), ReqPayload)
    \/ PubGate(p)
    \/ PubMemcpy(p)
    \/ PubStoreLen(p)
    \/ PubStorePubId(p)
    \/ PubCommit(p)

FacSubStep(s) ==
    \/ SubCall(s, FALSE, FALSE, ReqPayload, TRUE)
    \/ SubReload(s)
    \/ SubLoadSeq(s)
    \/ SubReadLen(s)
    \/ SubMemcpy(s)
    \/ SubReadPubId(s)
    \/ SubPostSeq(s)

\* No shared-memory object yet; publishers p1, p2 and subscriber s1 are
\* created through the facade, in any order and interleaving, and used.
InitRegion ==
    /\ shm_path = NULL
    /\ nobj = 0
    /\ region = [o \in Objects |-> NoRegion]
    /\ w_head = [o \in Objects |-> 0]
    /\ slot = [o \in Objects |-> <<>>]
    /\ pub = [p \in Pubs |-> UnboundPub]
    /\ sub = [s \in Subs |-> UnboundSub]
    /\ pubf = [p \in Pubs |-> IdlePubFrame]
    /\ subf = [s \in Subs |-> IdleSubFrame]
    /\ fac = [h \in Pubs \cup Subs |-> IdleFac]
    /\ last = NoEvent
    /\ granted = [o \in Objects |-> <<>>]
    /\ delivered = [s \in Subs |-> <<>>]
    /\ core = IdleCore

NextRegion ==
    \/ \E p \in Pubs : usrl_pub_create(p)
    \/ usrl_sub_create("s1")
    \/ \E p \in {q \in Pubs : pub[q].desc # NULL} : FacPubStep(p)
    \/ sub["s1"].desc # NULL /\ FacSubStep("s1")

SpecRegion == InitRegion /\ [][NextRegion]_vars

\* usrl_core_init alone, on a path that names no object
InitCore == InitRegion

SpecCore == InitCore /\ [][NextCore]_vars

\* One publisher and two subscribers on a SWMR or a MWMR ring.
InitSubs == \E cfg \in SwmrConfigs \cup MwmrConfigs : RingInit(cfg, {"p1"}, {"s1", "s2"})

NextSubs ==
    \/ ArgsPubStep("p1")
    \/ \E s \in Subs : OrderSubStep(s)

SpecSubs == InitSubs /\ [][NextSubs]_vars

\* usrl_pub_publish of a SWMR ring: no gate
SwmrPubStep(p) ==
    \/ PubCallValid(p)
    \/ PubMemcpy(p)
    \/ PubStoreLen(p)
    \/ PubStorePubId(p)
    \/ PubCommit(p)

\* One SWMR publisher fanning out to two subscribers.
InitFan == \E cfg \in SwmrConfigs : RingInit(cfg, {"p1"}, {"s1", "s2"})

NextFan ==
    \/ SwmrPubStep("p1")
    \/ \E s \in Subs : OrderSubStep(s)

SpecFan == InitFan /\ [][NextFan]_vars

\* A SWMR publisher that publishes at least slot_count messages and then
\* goes quiet, and a subscriber that makes its first call only after that:
\* the publisher steps while the subscriber has not called, the subscriber
\* calls, with a full-size buffer, once the publisher is idle with
\* w_head >= slot_count.
LatePubStep(p, s) ==
    /\ delivered[s] = <<>> /\ subf[s] = IdleSubFrame /\ last.who # s
    /\ SwmrPubStep(p)

LateSubStep(s, p) ==
    /\ pubf[p] = IdlePubFrame
    /\ w_head[sub[s].desc] >= region[sub[s].desc].slot_count
    /\ ArgsSubStep(s)

InitLate == \E cfg \in SwmrConfigs : RingInit(cfg, {"p1"}, {"s1"})

NextLate ==
    \/ LatePubStep("p1", "s1")
    \/ LateSubStep("s1", "p1")

SpecLate == InitLate /\ [][NextLate]_vars

\* One facade publisher on a SWMR or a MWMR ring and nothing else running.
\* The clock moves in steps of TickNs, up to MaxTicks steps; the handle makes
\* up to MaxSends sends of a full-capacity or an oversized payload; the
\* configured rates give quotas of 1 and 2 messages per window, 0 = no limiter.
MaxTicks == 2
MaxSends == 3
TickNs == 600000
RateHz == {0, 50, 2000}

ClockReadings == {t * TickNs : t \in 0..MaxTicks}

InitSend ==
    \E cfg \in SwmrConfigs \cup MwmrConfigs, hz \in RateHz, b \in BOOLEAN :
        RingInitFac(cfg, {"p1"}, {},
                    [h \in Pubs \cup Subs |->
                        IF h = "p1" THEN [IdleFac EXCEPT !.send = NewSend(hz, b)]
                        ELSE IdleFac])

usrl_pub_send(p) ==
    \/ \E pnull, dnull \in BOOLEAN, now \in ClockReadings, len \in {RingCap, RingCap + 1} :
          /\ pnull \/ dnull => (now = fac[p].send.now /\ len = RingCap)
          /\ SendCall(p, pnull, dnull, now, len, MaxSends)
    \/ SendPublishCall(p, DrainSeq)
    \/ PubGate(p)
    \/ PubMemcpy(p)
    \/ PubStoreLen(p)
    \/ PubStorePubId(p)
    \/ PubCommit(p)
    \/ SendReturn(p)

NextSend == usrl_pub_send("p1")

SpecSend == InitSend /\ [][NextSend]_vars

\* Two MWMR publishers of zero-length messages and one subscriber with a
\* full-size buffer that does not ask for the publisher id, two sequences
\* more than in the other specifications.  A publish call that has begun
\* keeps running and the subscriber keeps calling usrl_sub_next (weak
\* fairness); nobody is obliged to begin another publish call.
LeakSeq == MaxSeq + 2

LeakPubRun(p) ==
    \/ PubGate(p)
    \/ PubStoreLen(p)
    \/ PubStorePubId(p)
    \/ PubCommit(p)

LeakPubStep(p) ==
    \/ PubCallCap(p, FALSE, FALSE, PubIdOf(p), 0, LeakSeq)
    \/ LeakPubRun(p)

LeakSubStep(s) ==
    \/ SubCall(s, FALSE, FALSE, RingCap, FALSE)
    \/ SubReload(s)
    \/ SubLoadSeq(s)
    \/ SubReadLen(s)
    \/ SubPostSeq(s)

InitLeak == \E cfg \in MwmrConfigs : RingInit(cfg, {"p1", "p2"}, {"s1"})

NextLeak ==
    \/ \E p \in Pubs : LeakPubStep(p)
    \/ LeakSubStep("s1")

SpecLeak ==
    /\ InitLeak /\ [][NextLeak]_vars
    /\ \A p \in Pubs : WF_vars(LeakPubRun(p))
    /\ WF_vars(LeakSubStep("s1"))

(***************************************************************************)
(* Properties                                                              *)
(***************************************************************************)
\* the reservation record of sequence seq on object o
GrantOf(o, seq) == CHOOSE g \in {granted[o][i] : i \in DOMAIN granted[o]} : g.seq = seq

\* a returned message agrees in length, bytes and publisher id with the one
\* publish call that reserved the sequence the subscriber consumed
FrameIntact(s) ==
    LET g == GrantOf(sub[s].desc, last.seq)
    IN  /\ last.rc = g.len
        /\ last.out = g.data
        /\ last.want_id => last.out_pub_id = g.pub_id

Writing == {"memcpy", "payload_len", "pub_id", "commit"}

\* C1: on a SWMR ring with one publisher and one subscriber, every
\* usrl_sub_next call that returns a message returns exactly the length, the
\* bytes and the pub_id of the single publish that wrote the consumed
\* sequence; no frame mixing two publishes is returned.  Only returns of a
\* positive length count here (a return of 0 reads as "no data" to the caller).
C1_NoTornFrame ==
    \A s \in Subs :
        (last.who = s /\ last.path = "msg" /\ last.rc > 0
            /\ region[sub[s].desc].type = USRL_RING_TYPE_SWMR) => FrameIntact(s)

\* C2: on a MWMR ring no two usrl_mwmr_pub_publish calls are at the same time
\* between passing the gate and their commit store on the same slot.
C2_GateSerialises ==
    \A p, q \in Pubs :
        (p # q /\ pub[p].is_mwmr /\ pub[q].is_mwmr
            /\ pubf[p].pc \in Writing /\ pubf[q].pc \in Writing
            /\ pub[p].desc = pub[q].desc) => PubSlot(p) # PubSlot(q)

\* C3: with concurrent MWMR publishers a slot's seq only moves upward: every
\* store to seq replaces a non-zero value by a strictly greater one.
C3_SeqOnlyUp ==
    [][\A o \in Objects : \A i \in DOMAIN slot[o] :
          (i \in DOMAIN slot'[o] /\ region[o].type = USRL_RING_TYPE_MWMR
              /\ slot[o][i].seq # 0 /\ slot'[o][i].seq # slot[o][i].seq)
          => slot'[o][i].seq > slot[o][i].seq]_vars

\* C5: w_head never decreases, a publish call that passes validation adds
\* exactly 1 to it (and no other step changes it), and no two publish calls
\* obtain the same commit sequence.
C5_HeadMonotoneUnique ==
    [][\A o \in Objects :
          /\ w_head'[o] >= w_head[o]
          /\ IF granted'[o] # granted[o]
             THEN w_head'[o] = w_head[o] + 1
             ELSE w_head'[o] = w_head[o]
          /\ \A i, j \in DOMAIN granted'[o] :
                i # j => granted'[o][i].seq # granted'[o][j].seq]_vars

\* a state in which two publish calls hold reservations at once
C5_Witness ==
    /\ pubf["p1"].pc # "idle" /\ pubf["p2"].pc # "idle"
    /\ pubf["p1"].commit_seq # pubf["p2"].commit_seq
    /\ w_head[1] = MaxSeq

C7_InvalidNoChange ==
    [][/\ \A p \in Pubs : \A a \in PubArgs(RingCap) :
              ((a.hnull \/ a.dnull \/ pub[p].desc = NULL)
                  /\ PubCall(p, a.hnull, a.dnull, a.d, a.len))
              => /\ last'.who = p /\ last'.rc = -1
                 /\ UNCHANGED <<w_head, slot, sub, pubf, subf, granted>>
       /\ \A s \in Subs : \A a \in SubArgs(RingCap) :
              ((a.hnull \/ a.bnull \/ sub[s].desc = NULL)
                  /\ SubCall(s, a.hnull, a.bnull, a.buf_len, a.want_id))
              => /\ last'.who = s /\ last'.rc = -1
                 /\ UNCHANGED <<w_head, slot, sub, pubf, subf, granted>>]_vars

\* a state right after an invalid usrl_sub_next call of a subscriber that had
\* already consumed a message, with a publish in flight
C7_Witness ==
    /\ last.op = "sub_next" /\ last.rc = -1 /\ last.who = "s1"
    /\ sub["s1"].last_seq > 0
    /\ pubf["p1"].pc \in Writing

\* a state right after an invalid publish call on the never-bound handle
C7_WitnessUnbound ==
    /\ last.op = "publish" /\ last.rc = -1 /\ last.who = "p2"
    /\ w_head[1] > 0

\* C8: when a region already exists at the path, a further usrl_core_init on
\* that path reports Exists (1) and leaves the region as it is: the path keeps
\* naming the same object, whose descriptor, w_head and slots are not reset.
C8_ExistingRegionKept ==
    [][/\ (shm_path # NULL /\ region[shm_path].magic) =>
             /\ shm_path' = shm_path
             /\ region'[shm_path] = region[shm_path]
             /\ w_head'[shm_path] >= w_head[shm_path]
       /\ (last'.op = "core_init" /\ last'.path = "existed") => last'.rc = 1]_vars

\* the handles usrl_pub_create / usrl_sub_create returned bound to a ring
CreatedPubs == {p \in Pubs : fac[p].pc = "done" /\ pub[p].desc # NULL}
CreatedSubs == {s \in Subs : fac[s].pc = "done" /\ sub[s].desc # NULL}

\* C9: after any sequence of usrl_pub_create and usrl_sub_create calls for
\* one topic, all the publishers and subscribers created operate on one and
\* the same ring (the one the path names).
C9_OneRing ==
    /\ \A p, q \in CreatedPubs : pub[p].desc = pub[q].desc
    /\ \A p \in CreatedPubs : \A s \in CreatedSubs : pub[p].desc = sub[s].desc

\* the sequences of the messages a subscriber returned, in call order
MsgSeqs(s) == SelectSeq(delivered[s], LAMBDA e : e.kind = "msg")

\* C4 as stated: with a publisher that never rewrites an unconsumed slot, the
\* subscriber's message returns are the sequences 1, 2, 3, ... without gap or
\* repeat, each with the length, bytes and pub_id of the matching publish.
C4_MessagesGapless ==
    /\ \A i \in DOMAIN MsgSeqs("s1") : MsgSeqs("s1")[i].seq = i
    /\ (last.who = "s1" /\ last.path = "msg") => FrameIntact("s1")

\* C4 amended: the subscriber consumes the sequences 1, 2, 3, ... without gap
\* or repeat; each is either returned as a message with the length, bytes and
\* pub_id of the matching publish, or reported Truncated (-3) because the
\* buffer passed is shorter than its payload.
C4_ConsumedGapless ==
    /\ \A i \in DOMAIN delivered["s1"] : delivered["s1"][i].seq = i
    /\ (last.who = "s1" /\ last.path = "msg") => FrameIntact("s1")
    /\ (last.who = "s1" /\ last.path = "trunc") =>
           /\ last.rc = -3
           /\ last.buf_len < GrantOf(sub["s1"].desc, last.seq).len
    /\ (last.who = "s1" /\ last.op = "sub_next") =>
           last.path \in {"msg", "trunc", "empty", "not_committed"}
    /\ subf["s1"].pc # "reload"

\* a state right after the subscriber returned the last message of a full
\* capacity payload, a Truncated result among the earlier sequences
C4_Witness ==
    /\ last.who = "s1" /\ last.path = "msg" /\ last.rc = capacity(1)
    /\ Len(delivered["s1"]) = MaxSeq
    /\ \E i \in DOMAIN delivered["s1"] : delivered["s1"][i].kind = "trunc"

\* C10: for each subscriber the sequences of the messages it returns are
\* strictly increasing over its successive calls, on SWMR and MWMR rings.
C10_StrictlyIncreasing ==
    \A s \in Subs : \A i, j \in DOMAIN MsgSeqs(s) :
        i < j => MsgSeqs(s)[i].seq < MsgSeqs(s)[j].seq

\* a subscriber of a MWMR ring that returned two messages, from two publishers
C10_Witness ==
    /\ region[1].type = USRL_RING_TYPE_MWMR
    /\ Len(MsgSeqs("s1")) >= 2
    /\ \E i, j \in DOMAIN granted[1] : granted[1][i].pub_id # granted[1][j].pub_id

\* a step of usrl_sub_next by subscriber s: its frame changes or it returns
SubStepOf(s) == subf'[s] # subf[s] \/ (last'.who = s /\ last'.op = "sub_next")

\* C11: usrl_sub_next never writes shared memory: on every path w_head and
\* every slot's seq, header fields and payload are unchanged by each of its
\* steps; only its buffers and the subscriber's own last_seq may change.
C11_SubNeverWrites ==
    [][\A s \in Subs : SubStepOf(s) =>
          /\ UNCHANGED <<shm_path, nobj, region, w_head, slot>>
          /\ UNCHANGED <<pub, pubf, granted>>
          /\ \A t \in Subs \ {s} : sub'[t] = sub[t]]_vars

\* a state right after a call discarded a torn read on a ring whose last
\* reserved sequence is committed
C11_Witness ==
    /\ last.who = "s1" /\ last.path = "torn"
    /\ w_head[1] = MaxSeq
    /\ \E i \in DOMAIN slot[1] : slot[1][i].seq = MaxSeq

\* C12: subscribers of one topic do not influence one another or the
\* writers.  Each step of a call reads only shared memory and the caller's
\* own handle and frame and is a function of them, so a subscriber's results
\* and cursor are the same whatever another subscriber does in between
\* exactly when no step of that other subscriber changes what the first one
\* or a publisher reads: shared memory, the publishers' handles and frames,
\* and the first subscriber's handle, frame and consumed sequences.
C12_SubscribersIndependent ==
    [][\A b \in Subs : SubStepOf(b) =>
          /\ \A a \in Subs \ {b} :
                /\ sub'[a] = sub[a]
                /\ subf'[a] = subf[a]
                /\ delivered'[a] = delivered[a]
          /\ w_head' = w_head /\ slot' = slot /\ region' = region
          /\ pub' = pub /\ pubf' = pubf /\ granted' = granted]_vars

\* a state right after subscriber s2 consumed a sequence while subscriber s1
\* is in the middle of copying a payload and the publisher is writing
C12_Witness ==
    /\ last.who = "s2" /\ last.path \in {"msg", "trunc"}
    /\ subf["s1"].pc = "memcpy" /\ subf["s1"].k > 0
    /\ pubf["p1"].pc \in Writing

\* last_seq of subscriber s when its current call began
EntrySeq(s) == IF subf[s].pc = "idle" THEN sub[s].last_seq ELSE subf[s].entry

\* the returns of usrl_sub_next that report "no data": nothing due, or the
\* due slot not yet committed
EmptyPaths == {"empty", "overrun_empty", "not_committed"}

\* a step moves the cursor of s past its due sequence N only when the call
\* saw N committed in its slot or the overrun rule applies to N
PassesOnlyCommitted(s) ==
    LET o == sub[s].desc
        N == sub[s].last_seq + 1
    IN  sub'[s].last_seq # sub[s].last_seq =>
           /\ sub'[s].last_seq >= N
           /\ \/ subf[s].pc # "idle" /\ subf[s].seq = N
              \/ w_head[o] - N >= region[o].slot_count

\* One subscriber with one SWMR publisher or with two MWMR publishers, as in
\* SpecOrder, every message filling its slot and every buffer holding a whole
\* message: the lengths play no part in the returns that report "no data".
GapPubStep(p) ==
    \/ PubCall(p, FALSE, FALSE, PubIdOf(p), RingCap)
    \/ PubGate(p)
    \/ PubMemcpy(p)
    \/ PubStoreLen(p)
    \/ PubStorePubId(p)
    \/ PubCommit(p)

GapSubStep(s) ==
    \/ SubCall(s, FALSE, FALSE, RingCap, TRUE)
    \/ SubReload(s)
    \/ SubLoadSeq(s)
    \/ SubReadLen(s)
    \/ SubMemcpy(s)
    \/ SubReadPubId(s)
    \/ SubPostSeq(s)

InitGap == InitOrder

NextGap ==
    \/ \E p \in {q \in Pubs : pub[q].desc # NULL} : GapPubStep(p)
    \/ GapSubStep("s1")

SpecGap == InitGap /\ [][NextGap]_vars

\* C13 as stated: a call that returns Empty because nothing is due or the
\* due slot is not committed leaves last_seq as it was when the call began,
\* and the subscriber does not pass an uncommitted sequence unless the
\* overrun rule applies.
C13_EmptyKeepsCursor ==
    [][\A s \in Subs :
          /\ (last'.who = s /\ last'.path \in EmptyPaths) =>
                /\ last'.rc = 0
                /\ sub'[s].last_seq = EntrySeq(s)
          /\ PassesOnlyCommitted(s)]_vars

\* C13 amended: such a call leaves last_seq as it was when the call began
\* unless the call first took the overrun jump (the overrun rule applied to
\* the sequence due at its start); the returning step itself never moves the
\* cursor, and the subscriber does not pass its due sequence N while N is
\* uncommitted, even when N+1 is committed, unless the overrun rule applies.
C13_EmptyKeepsCursorUnlessOverrun ==
    [][\A s \in Subs :
          /\ (last'.who = s /\ last'.path \in EmptyPaths) =>
                /\ last'.rc = 0
                /\ sub'[s] = sub[s]
                /\ subf'[s] = IdleSubFrame
                /\ \/ sub'[s].last_seq = EntrySeq(s)
                   \/ w_head[sub[s].desc] - (EntrySeq(s) + 1)
                         >= region[sub[s].desc].slot_count
          /\ PassesOnlyCommitted(s)]_vars

\* a state right after a call returned Empty for an uncommitted due sequence
\* N while N+1 is already committed in its slot
C13_Witness ==
    /\ last.who = "s1" /\ last.path = "not_committed"
    /\ \E i \in DOMAIN slot[1] : slot[1][i].seq = sub["s1"].last_seq + 2
    /\ \A i \in DOMAIN slot[1] : slot[1][i].seq # sub["s1"].last_seq + 1

\* the step of s that reads a payload_len larger than the caller's buffer
TruncStep(s) ==
    /\ subf[s].pc = "payload_len"
    /\ subf'[s] # subf[s]
    /\ slot[sub[s].desc][SubSlot(s)].payload_len > subf[s].buf_len

\* C14: when the due message's payload_len is larger than the caller's
\* buffer, usrl_sub_next returns -3, advances last_seq by exactly one, to the
\* due sequence, and leaves the caller's buffer as it was; usrl_sub_recv then
\* returns a negative value that is not its no-data code, counts one skip and
\* counts nothing else.
C14_TruncatedSkipsOne ==
    [][\A s \in Subs :
          (TruncStep(s) \/ (last'.who = s /\ last'.path = "trunc")) =>
             /\ TruncStep(s)
             /\ last'.who = s /\ last'.op = "sub_next" /\ last'.rc = -3
             /\ subf'[s].pc = "idle"
             /\ sub'[s].last_seq = sub[s].last_seq + 1
             /\ sub'[s].last_seq = subf[s].next
             /\ subf[s].k = 0
             /\ last'.out = [k \in 1..subf[s].buf_len |-> 0]
             /\ LET r == usrl_sub_recv(FALSE, FALSE, last'.rc, NewHealth)
                IN  /\ r.ret < 0
                    /\ r.ret # usrl_sub_recv(FALSE, FALSE, USRL_RING_NO_DATA, NewHealth).ret
                    /\ r.health = [NewHealth EXCEPT !.local_skips = 1]]_vars

\* a truncated return for a committed message longer than the buffer whose
\* payload bytes are not zero, for the second sequence of the topic
C14_Witness ==
    /\ last.who = "s1" /\ last.path = "trunc" /\ last.rc = -3
    /\ last.seq = 2 /\ sub["s1"].last_seq = 2
    /\ Len(last.out) = 1
    /\ \E i \in DOMAIN slot[1] :
          /\ slot[1][i].seq = 2 /\ slot[1][i].payload_len > 1
          /\ slot[1][i].payload[1] # 0
    /\ usrl_sub_recv(FALSE, FALSE, last.rc, NewHealth).health.local_skips = 1

\* the steps of usrl_pub_publish after its fetch_add
SwmrOwnStep(p) == PubMemcpy(p) \/ PubStoreLen(p) \/ PubStorePubId(p) \/ PubCommit(p)

\* number of steps usrl_pub_publish still has to take from its position
SwmrStepsLeft(p) ==
    CASE pubf[p].pc = "idle" -> 0
      [] pubf[p].pc = "commit" -> 1
      [] pubf[p].pc = "pub_id" -> 2
      [] pubf[p].pc = "payload_len" -> 3
      [] pubf[p].pc = "memcpy" ->
            3 + ((pubf[p].len - pubf[p].k + CopyChunk - 1) \div CopyChunk)
      [] OTHER -> WordMax

\* the longest usrl_pub_publish call on a ring of payload capacity cap
SwmrStepBound(cap) == 4 + ((cap + CopyChunk - 1) \div CopyChunk)

OnSwmr(p) ==
    /\ pub[p].desc # NULL
    /\ ~pub[p].is_mwmr
    /\ region[pub[p].desc].type = USRL_RING_TYPE_SWMR

C16_TimeoutOnlyBehindUnfinishedWriter ==
    [][\A p \in Pubs :
          (last'.who = p /\ last'.op = "publish" /\ last'.rc = -3) =>
             \E q \in Pubs \ {p} :
                /\ pub[q].desc = pub[p].desc
                /\ pubf[q].pc # "idle"
                /\ pubf[q].commit_seq < pubf[p].commit_seq
                /\ PubSlot(q) = PubSlot(p)]_vars

\* C17: on an MWMR topic with concurrent publishers and no subscriber, once
\* every publish call has returned and at least slot_count sequences were
\* reserved, w_head equals the number of calls that passed validation and
\* every slot's seq lies within [w_head - slot_count, w_head].
C17_DrainedRingInWindow ==
    \A o \in Objects :
        (/\ region[o].type = USRL_RING_TYPE_MWMR
         /\ \A p \in Pubs : pubf[p].pc = "idle"
         /\ w_head[o] >= region[o].slot_count) =>
            /\ w_head[o] = Len(granted[o])
            /\ \A i \in DOMAIN slot[o] :
                  /\ slot[o][i].seq >= w_head[o] - region[o].slot_count
                  /\ slot[o][i].seq <= w_head[o]

\* a configuration the builder has to refuse: a slot count below 1, a payload
\* size that does not fit the slot, or a name that occurs twice
BadConfig(topics) ==
    \/ \E k \in DOMAIN topics : topics[k].slot_count < 1
    \/ \E k \in DOMAIN topics :
          topics[k].slot_size > slot_sz_aligned(topics[k]) - SizeofSlotHeader
    \/ \E j, k \in DOMAIN topics : j # k /\ topics[j].name = topics[k].name

\* C18: usrl_core_init rejects (-1) every configuration with a slot count
\* below 1, a payload that does not fit the slot or a repeated topic name,
\* and leaves no topic that a lookup finds.
C18_BadConfigRejected ==
    [][(last'.who = "init" /\ last'.op = "core_init" /\ BadConfig(core'.topics)) =>
          /\ last'.rc = -1
          /\ \A n \in CoreNames : usrl_get_topic(core'.img, n) = NULL]_vars

\* sizeof(slot array) of a topic
ArrayBytes(cfg) == slots_pow2(cfg) * slot_sz_aligned(cfg)

\* offset of the first slot array for count topics
SlotsStart(count) ==
    usrl_align_up(
        usrl_align_up(usrl_align_up(SizeofCoreHeader, USRL_ALIGNMENT)
                      + SizeofTopicEntry * count, USRL_ALIGNMENT)
        + SizeofRingDesc * count, USRL_ALIGNMENT)

\* 64-byte aligned start offset of the slot array of topic k
RECURSIVE ArrayStart(_, _)
ArrayStart(topics, k) ==
    IF k = 1 THEN SlotsStart(Len(topics))
    ELSE usrl_align_up(ArrayStart(topics, k - 1) + ArrayBytes(topics[k - 1]),
                       USRL_ALIGNMENT)

\* every topic's slot array ends within size
Fits(size, topics) ==
    \A k \in DOMAIN topics : ArrayStart(topics, k) + ArrayBytes(topics[k]) <= size

C20_MagicInstalledLast ==
    core.img.magic =>
        /\ core.img.topic_count = Len(core.topics)
        /\ Len(core.img.table) = Len(core.topics)
        /\ Len(core.img.desc) = Len(core.topics)
        /\ core.img.seq_init = 1..Len(core.topics)
        /\ \A k \in DOMAIN core.img.desc : core.img.desc[k].w_head = 0

\* offset of the ring descriptor array for count topics
RingDescStart(count) ==
    usrl_align_up(usrl_align_up(SizeofCoreHeader, USRL_ALIGNMENT)
                  + SizeofTopicEntry * count, USRL_ALIGNMENT)

\* the object a usrl_core_init call that returned 0 leaves at the path
BuiltImage(size, topics) ==
    [exists |-> TRUE, size |-> size, magic |-> TRUE, version |-> 1,
     topic_table_offset |-> usrl_align_up(SizeofCoreHeader, USRL_ALIGNMENT),
     topic_count |-> Len(topics),
     table |-> [k \in 1..Len(topics) |->
                  [name |-> topics[k].name,
                   ring_desc_offset |-> RingDescStart(Len(topics)) + (k - 1) * SizeofRingDesc,
                   slot_count |-> slots_pow2(topics[k]),
                   slot_size |-> slot_sz_aligned(topics[k]),
                   type |-> topics[k].type]],
     desc |-> [k \in 1..Len(topics) |->
                  [slot_count |-> slots_pow2(topics[k]),
                   slot_size |-> slot_sz_aligned(topics[k]),
                   base_offset |-> ArrayStart(topics, k),
                   w_head |-> 0]],
     seq_init |-> 1..Len(topics)]

\* a usrl_core_init call that returned 0 has left BuiltImage
BuiltImageIsBuilt ==
    (core.pc = "idle" /\ core.ncalls > 0 /\ core.rc = 0) =>
        core.img = BuiltImage(core.size, core.topics)

\* attaching to the object at the path: nothing, a region usrl_core_init
\* built, or a region whose header carries another magic or layout version
AttachVersions == {0, 1, 2}

\* topic lists of the regions attached to: one-slot and 32-slot rings of
\* 8-byte payloads under the names of CoreNames
AttachCfgs == [name : CoreNames, slot_count : {1, 32},
               slot_size : {8}, type : {USRL_RING_TYPE_SWMR}]

AttachLists == UNION {[1..n -> AttachCfgs] : n \in 1..MaxTopics}

AttachImages ==
    {NoImage} \cup
    {[BuiltImage(MinRegionSize, topics) EXCEPT !.magic = m, !.version = v] :
        topics \in AttachLists, m \in BOOLEAN, v \in AttachVersions}

LookupNames == CoreNames \cup {"c"}

InitAttach ==
    /\ shm_path = NULL
    /\ nobj = 0
    /\ region = [o \in Objects |-> NoRegion]
    /\ w_head = [o \in Objects |-> 0]
    /\ slot = [o \in Objects |-> <<>>]
    /\ pub = [p \in Pubs |-> UnboundPub]
    /\ sub = [s \in Subs |-> UnboundSub]
    /\ pubf = [p \in Pubs |-> IdlePubFrame]
    /\ subf = [s \in Subs |-> IdleSubFrame]
    /\ fac = [h \in Pubs \cup Subs |-> IdleFac]
    /\ last = NoEvent
    /\ granted = [o \in Objects |-> <<>>]
    /\ delivered = [s \in Subs |-> <<>>]
    /\ \E img \in AttachImages : core = [IdleCore EXCEPT !.img = img]

NextAttach ==
    \/ AttachMap
    \/ \E name \in LookupNames : AttachLookup(name)
    \/ AttachUnmap

SpecAttach == InitAttach /\ [][NextAttach]_vars

\* C21: usrl_get_topic on a mapped region whose header has a wrong magic or
\* a version other than 1 returns NULL for every name, and a name that is in
\* no topic-table entry is answered with NULL.
C21_BadHeaderNoTopic ==
    (last.who = "attach" /\ last.op = "get_topic") =>
        /\ (~core.img.magic \/ core.img.version # 1) => last.rc = NULL
        /\ (\A k \in DOMAIN core.img.table : core.img.table[k].name # last.out[1])
              => last.rc = NULL

\* results of subscriber s so far: messages returned, Truncated results
Returned(s) ==
    Cardinality({i \in DOMAIN delivered[s] : delivered[s][i].kind = "msg"})

Truncated(s) ==
    Cardinality({i \in DOMAIN delivered[s] : delivered[s][i].kind = "trunc"})

\* sequences reserved on object o by all its publishers
Reserved(o) == Len(granted[o])

SubsOf(o) == {s \in Subs : sub[s].desc = o}

RECURSIVE SumOver(_, _)
SumOver(S, n) ==
    IF S = {} THEN 0
    ELSE LET s == CHOOSE x \in S : TRUE
         IN  (IF n = "msg" THEN Returned(s) ELSE Truncated(s)) + SumOver(S \ {s}, n)

\* C22 as stated: the messages returned by all subscribers of a topic
\* together number at most the sequences reserved by its publishers plus the
\* Truncated results of all its subscribers.
C22_TotalReturnedBounded ==
    \A o \in Objects :
        SumOver(SubsOf(o), "msg") <= Reserved(o) + SumOver(SubsOf(o), "trunc")

\* C22 (amended): each subscriber of a topic has, in messages returned and
\* Truncated results together, at most as many results as sequences were
\* reserved by the topic's publishers, each for a sequence of its own.
C22_EachSubscriberBounded ==
    \A s \in Subs :
        sub[s].desc # NULL =>
            /\ Returned(s) + Truncated(s) <= Reserved(sub[s].desc)
            /\ \A i, j \in DOMAIN delivered[s] :
                   i # j => delivered[s][i].seq # delivered[s][j].seq

\* both subscribers have returned every message of a ring whose sequences
\* are all reserved, one of them after a Truncated result
C22_Witness ==
    /\ Reserved(1) = MaxSeq
    /\ Returned("s1") + Truncated("s1") = MaxSeq
    /\ Returned("s2") = MaxSeq
    /\ Truncated("s1") > 0

SendsIn(p, start) ==
    {i \in DOMAIN fac[p].send.sends : fac[p].send.sends[i].start = start}

WindowStarts(p) == {fac[p].send.sends[i].start : i \in DOMAIN fac[p].send.sends}

\* a handle with the limiter enabled and block_on_full = false
Limited(p) == fac[p].send.use_limiter /\ ~fac[p].send.block_on_full

\* the send that has just begun found the quota of its window used up:
\* publish_quota earlier sends of the same window were let through
FoundQuotaUsedUp(p) ==
    LET rs == fac'[p].send.sends
        r == rs[Len(rs)]
    IN  Cardinality({i \in 1..(Len(rs) - 1) : rs[i].start = r.start /\ ~rs[i].throttled})
            >= fac[p].send.quota.publish_quota

SendCallStep(p) == Len(fac'[p].send.sends) = Len(fac[p].send.sends) + 1

\* within every window at most publish_quota sends went on to publish, and
\* the ring holds no more reservations than sends went on to publish; once
\* every send has returned, a window with more fitting sends than the quota
\* has sends that returned 0 and sends that were dropped
QuotaKept(p) ==
    LET rs == fac[p].send.sends
        quota == fac[p].send.quota.publish_quota
    IN  Limited(p) =>
          /\ \A w \in WindowStarts(p) :
                Cardinality({i \in SendsIn(p, w) : rs[i].published}) <= quota
          /\ Len(granted[1]) <= Cardinality({i \in DOMAIN rs : rs[i].published})
          /\ fac[p].send.spc = "idle" =>
                \A w \in WindowStarts(p) :
                    (/\ Cardinality(SendsIn(p, w)) > quota
                     /\ \A i \in SendsIn(p, w) : rs[i].len <= RingCap)
                    => /\ \E i \in SendsIn(p, w) : rs[i].rc = 0
                       /\ \E i \in SendsIn(p, w) : rs[i].throttled /\ rs[i].rc = -1

\* C24: with the limiter enabled and block_on_full = false, a usrl_pub_send
\* that finds the quota of the current window used up returns -1, adds one to
\* local_drops and reserves no sequence; within one window at most
\* publish_quota messages of the publisher are published; and when more sends
\* than the quota are attempted in a window, some succeed and some are dropped.
C24_ThrottledSendDrops ==
    /\ [](QuotaKept("p1"))
    /\ [][(Limited("p1") /\ SendCallStep("p1") /\ FoundQuotaUsedUp("p1")) =>
            /\ last'.who = "p1" /\ last'.op = "pub_send" /\ last'.rc = -1
            /\ fac'["p1"].send.local_drops = fac["p1"].send.local_drops + 1
            /\ fac'["p1"].send.spc = "idle"
            /\ UNCHANGED <<w_head, slot, granted, pubf>>]_vars

\* a quota of two, three fitting sends in one window: two returned 0 and the
\* third was dropped
C24_Witness ==
    LET rs == fac["p1"].send.sends
    IN  /\ Limited("p1")
        /\ fac["p1"].send.quota.publish_quota = 2
        /\ fac["p1"].send.spc = "idle"
        /\ fac["p1"].send.local_drops = 1
        /\ Len(rs) = 3
        /\ \A i \in 1..3 : rs[i].start = rs[1].start /\ rs[i].len <= RingCap
        /\ rs[1].rc = 0 /\ rs[2].rc = 0 /\ rs[3].rc = -1
        /\ w_head[1] = 2

\* publisher p is between its reservation and its commit for slot i of o
InFlightOn(p, o, i) ==
    pub[p].desc = o /\ pubf[p].pc # "idle" /\ PubSlot(p) = i

\* C25: on a MWMR ring, whenever a slot's seq is S # 0 and no publisher is
\* between its reservation and its commit for that slot, the slot's
\* payload_len, pub_id and payload bytes are those given to the publish call
\* that reserved S.
C25_SettledSlotIsOnePublish ==
    \A o \in Objects : \A i \in DOMAIN slot[o] :
        (/\ region[o].type = USRL_RING_TYPE_MWMR
         /\ slot[o][i].seq # 0
         /\ \A p \in Pubs : ~InFlightOn(p, o, i)) =>
            LET g == GrantOf(o, slot[o][i].seq)
            IN  /\ slot[o][i].payload_len = g.len
                /\ slot[o][i].pub_id = g.pub_id
                /\ \A k \in 1..g.len : slot[o][i].payload[k] = g.data[k]

\* the step in which publisher p leaves the safety spin and starts writing
GatePassStep(p) == pubf[p].pc = "gate" /\ pubf'[p].pc \in Writing

\* C26: usrl_mwmr_pub_publish starts writing a slot only from the safety
\* spin, and only in a step whose load of the slot's seq returned 0 or a
\* value of a strictly earlier generation, which is a value strictly smaller
\* than its own commit sequence; a load that returned a sequence at or above
\* its own never lets it start writing.
C26_WritesOnlyPastGate ==
    [][\A p \in Pubs : pub[p].is_mwmr =>
          LET v == slot[pub[p].desc][PubSlot(p)].seq
              c == pubf[p].commit_seq
              sc == region[pub[p].desc].slot_count
          IN  /\ (pubf[p].pc = "idle" /\ pubf'[p].pc # "idle") => pubf'[p].pc = "gate"
              /\ GatePassStep(p) =>
                    /\ v = 0 \/ (v \div sc) < (c \div sc)
                    /\ v < c
              /\ (pubf[p].pc = "gate" /\ v >= c) => pubf'[p].pc \notin Writing]_vars

\* a publisher has passed the gate on a slot that holds an earlier,
\* non-zero sequence and is writing it
C26_Witness ==
    \E p \in Pubs :
        /\ pub[p].is_mwmr
        /\ pubf[p].pc \in Writing
        /\ slot[pub[p].desc][PubSlot(p)].seq # 0
        /\ slot[pub[p].desc][PubSlot(p)].seq < pubf[p].commit_seq
        /\ \A q \in Pubs \ {p} : pubf[q].pc = "idle"

\* the steps of usrl_mwmr_pub_publish after its fetch_add
MwmrOwnStep(p) == PubGate(p) \/ SwmrOwnStep(p)

\* number of steps usrl_mwmr_pub_publish can still take from its position:
\* the spin iterations left before it gives up, then the writes
MwmrStepsLeft(p) ==
    IF pubf[p].pc = "gate"
    THEN (max_iter + 1 - pubf[p].iter) + 3
            + ((pubf[p].len + CopyChunk - 1) \div CopyChunk)
    ELSE SwmrStepsLeft(p)

\* the longest usrl_mwmr_pub_publish call on a ring of payload capacity cap
MwmrStepBound(cap) == 1 + (max_iter + 1) + 3 + ((cap + CopyChunk - 1) \div CopyChunk)

OnMwmr(p) ==
    /\ pub[p].desc # NULL
    /\ pub[p].is_mwmr
    /\ region[pub[p].desc].type = USRL_RING_TYPE_MWMR

\* C27: every usrl_mwmr_pub_publish call terminates: in every state its next
\* step is enabled and each step brings it closer to the return, at most
\* MwmrStepBound steps in all; it returns 0 from its commit store, after a
\* passing check, or -3 from the spin once the check has failed max_iter + 1
\* times; a call that returns -3 has changed no slot, and its sequence stays
\* reserved in w_head.
C27_MwmrPublishTerminates ==
    /\ [](\A p \in Pubs : (OnMwmr(p) /\ pubf[p].pc # "idle") =>
             /\ MwmrStepsLeft(p) \in 1..(MwmrStepBound(capacity(pub[p].desc)) - 1)
             /\ ENABLED MwmrOwnStep(p))
    /\ [][\A p \in Pubs : (OnMwmr(p) /\ pubf'[p] # pubf[p]) =>
             /\ pubf[p].pc # "idle" => MwmrStepsLeft(p)' < MwmrStepsLeft(p)
             /\ pubf[p].pc \in {"idle", "gate"} => slot' = slot
             /\ (last'.who = p /\ last'.op = "publish"
                   /\ last'.path \notin {"invalid", "too_large"}) =>
                     \/ /\ last'.rc = 0
                        /\ pubf[p].pc = "commit"
                     \/ /\ last'.rc = -3
                        /\ pubf[p].pc = "gate"
                        /\ pubf[p].iter = max_iter
                        /\ last'.seq = pubf[p].commit_seq
                        /\ w_head' = w_head
                        /\ w_head[pub[p].desc] >= pubf[p].commit_seq
                        /\ \E i \in DOMAIN granted[pub[p].desc] :
                              granted[pub[p].desc][i].seq = pubf[p].commit_seq]_vars

\* a call has returned -3 for a sequence that w_head counts and no slot holds
C27_Witness ==
    \E p \in Pubs :
        /\ OnMwmr(p)
        /\ last.who = p /\ last.op = "publish" /\ last.rc = -3
        /\ w_head[pub[p].desc] >= last.seq
        /\ \A i \in DOMAIN slot[pub[p].desc] : slot[pub[p].desc][i].seq # last.seq

\* a usrl_mwmr_pub_publish call has just returned Timeout for sequence n
TimeoutFor(n) == last.op = "publish" /\ last.rc = -3 /\ last.seq = n

\* every publish call has returned and no further one can begin
PublishersDone ==
    /\ \A p \in Pubs : pubf[p].pc = "idle"
    /\ w_head[1] = LeakSeq

\* C28: after usrl_mwmr_pub_publish returned Timeout for sequence N, a
\* subscriber that keeps calling usrl_sub_next eventually has last_seq >= N,
\* and it goes on to the later committed messages: once the publishers are
\* done it ends up, for good, at the newest sequence.
C28_NotStuckAfterTimeout ==
    \A n \in 1..LeakSeq :
        /\ TimeoutFor(n) ~> (sub["s1"].last_seq >= n)
        /\ TimeoutFor(n) ~> [](PublishersDone => sub["s1"].last_seq = w_head[1])

\* C29: a usrl_sub_next call that detects a torn read returns 0 and sets
\* last_seq to the w_head value it loaded, and at that moment no sequence at
\* or below the new last_seq is reserved by a publish call that has not
\* committed it yet.
C29_TornJumpsToNewestCommitted ==
    [][\A s \in Subs : (last'.who = s /\ last'.path = "torn") =>
          /\ last'.rc = 0
          /\ sub'[s].last_seq = subf[s].w_head
          /\ \A p \in Pubs :
                (pub[p].desc = sub[s].desc /\ pubf'[p].pc # "idle")
                    => pubf'[p].commit_seq > sub'[s].last_seq]_vars

\* C30: the result of a usrl_sub_next call that consumed a message through
\* the verified copy, a zero-length message included, differs from the Empty
\* result 0, and usrl_sub_recv does not report it as no-data (-11).
C30_MessageNeverLooksEmpty ==
    \A s \in Subs :
        (last.who = s /\ last.op = "sub_next" /\ last.path = "msg") =>
            /\ last.rc # 0
            /\ usrl_sub_recv(FALSE, FALSE, last.rc, NewHealth).ret # -11

(***************************************************************************)
(* The skip counter of the overrun jump                                    *)
(***************************************************************************)
\* the step of usrl_sub_next that takes the overrun branch
OverrunJumpStep(s) == subf[s].pc = "idle" /\ subf'[s].pc = "reload"

\* C31: each overrun jump of usrl_sub_next adds one to the subscriber's skip
\* counter (the skipped_count the health report reads), and no other step
\* changes the counter.
C31_OverrunJumpCounted ==
    [][\A s \in Subs :
          /\ OverrunJumpStep(s) => sub'[s].skipped_count = sub[s].skipped_count + 1
          /\ ~OverrunJumpStep(s) => sub'[s].skipped_count = sub[s].skipped_count]_vars

(***************************************************************************)
(* usrl_core_init over the whole range of a requested slot count           *)
(***************************************************************************)
\* every slot count a uint32_t can request, with the smallest payload, in a
\* region large enough for the largest power of two of the word
WideSlotCounts == 1..(WordModulus - 1)
WideSizes == {MinRegionSize, MinRegionSize + WordModulus * slot_sz_aligned([slot_size |-> ReqPayload])}

WideCall ==
    /\ core.ncalls = 0
    /\ \E size \in WideSizes, v \in WideSlotCounts :
          CoreInitCall(FALSE, FALSE, size,
                       <<[name |-> "a", slot_count |-> v, slot_size |-> ReqPayload,
                          type |-> USRL_RING_TYPE_SWMR]>>)

InitWide == InitCore

NextWide ==
    \/ WideCall
    \/ CoreInitMagic
    \/ CoreInitTable
    \/ CoreInitEntry
    \/ CoreInitDesc
    \/ CoreInitReserve

SpecWide == InitWide /\ [][NextWide]_vars

IsPowerOfTwo(n) == \E k \in 0..WordBits : n = 2 ^ k

\* mask = slot_count - 1 as usrl_pub_init and usrl_sub_init compute it
MaskOf(slot_count) == (slot_count - 1) % WordModulus

\* n is the smallest power of two >= v and its mask keeps every index below
\* n: the largest index any commit sequence gives is the mask itself, the
\* index of commit = mask + 1
RoundedUp(v, n) ==
    /\ IsPowerOfTwo(n)
    /\ n >= v
    /\ n = 1 \/ n \div 2 < v
    /\ \A commit \in {1, v, MaskOf(n) + 1} : SlotIndex(commit, MaskOf(n)) < n

\* C32: for every requested slot count v >= 1 of the word's range the
\* slot_count the build stores in the topic entry and in the ring descriptor
\* is the smallest power of two >= v, so that (commit - 1) AND (slot_count - 1)
\* is an index below slot_count.
C32_SlotCountRoundedUp ==
    /\ \A i \in 1..Len(core.img.table) :
          core.topics[i].slot_count >= 1
              => RoundedUp(core.topics[i].slot_count, core.img.table[i].slot_count)
    /\ \A i \in 1..Len(core.img.desc) :
          core.topics[i].slot_count >= 1
              => RoundedUp(core.topics[i].slot_count, core.img.desc[i].slot_count)

(***************************************************************************)
(* The layout of a built region                                            *)
(***************************************************************************)
\* byte ranges [from, to) of the object a build left: the header, the topic
\* table, each ring descriptor and each slot array
AreaHeader == <<0, SizeofCoreHeader>>
AreaTable(img) ==
    <<img.topic_table_offset, img.topic_table_offset + img.topic_count * SizeofTopicEntry>>
AreaDesc(img, i) ==
    <<img.table[i].ring_desc_offset, img.table[i].ring_desc_offset + SizeofRingDesc>>
AreaSlots(img, i) ==
    <<img.desc[i].base_offset,
      img.desc[i].base_offset + img.desc[i].slot_count * img.desc[i].slot_size>>

Areas(img) ==
    [kind : {"header", "table"}, i : {0}]
        \cup [kind : {"desc", "slots"}, i : 1..img.topic_count]

AreaOf(img, a) ==
    CASE a.kind = "header" -> AreaHeader
      [] a.kind = "table" -> AreaTable(img)
      [] a.kind = "desc" -> AreaDesc(img, a.i)
      [] a.kind = "slots" -> AreaSlots(img, a.i)

Apart(r, q) == r[2] <= q[1] \/ q[2] <= r[1]

\* C33: after a usrl_core_init that returned 0 the header, the topic table,
\* the ring descriptors and the slot arrays are pairwise disjoint and inside
\* [0, size); entry i points at descriptor i of the descriptor array, and
\* the slot arrays follow configuration order at multiples of 64.
C33_LayoutDisjoint ==
    (last.who = "init" /\ last.rc = 0) =>
        LET img == core.img
            n == img.topic_count
        IN  /\ n = Len(core.topics) /\ Len(img.table) = n /\ Len(img.desc) = n
            /\ \A a \in Areas(img) :
                  /\ 0 <= AreaOf(img, a)[1]
                  /\ AreaOf(img, a)[1] <= AreaOf(img, a)[2]
                  /\ AreaOf(img, a)[2] <= img.size
            /\ \A a, b \in Areas(img) :
                  a # b => Apart(AreaOf(img, a), AreaOf(img, b))
            /\ \A i \in 1..n :
                  /\ img.table[i].ring_desc_offset
                        = img.table[1].ring_desc_offset + (i - 1) * SizeofRingDesc
                  /\ img.table[i].slot_count = img.desc[i].slot_count
                  /\ img.table[i].slot_size = img.desc[i].slot_size
                  /\ img.desc[i].base_offset % USRL_ALIGNMENT = 0
            /\ AreaTable(img)[2] <= img.table[1].ring_desc_offset
            /\ \A i \in 1..(n - 1) :
                  AreaSlots(img, i)[2] <= AreaSlots(img, i + 1)[1]

\* a build of two topics with non-empty slot arrays returned 0
C33_Witness ==
    /\ last.who = "init" /\ last.rc = 0
    /\ core.img.topic_count = 2
    /\ \A i \in 1..2 : AreaSlots(core.img, i)[1] < AreaSlots(core.img, i)[2]
    /\ AreaSlots(core.img, 1)[2] < AreaSlots(core.img, 2)[1]

(***************************************************************************)
(* What a slot can hold                                                    *)
(***************************************************************************)
\* C34: a non-zero seq stored in slot i of a ring maps to that slot,
\* (seq - 1) mod slot_count = i, and is a sequence that was already
\* reserved, seq <= w_head.
C34_SlotHoldsOwnReservedSeq ==
    \A o \in Objects : \A i \in DOMAIN slot[o] :
        slot[o][i].seq # 0 =>
            /\ (slot[o][i].seq - 1) % region[o].slot_count = i
            /\ slot[o][i].seq <= w_head[o]

\* a ring of two slots after a wrap: slot 0 holds sequence 3, slot 1 holds 2
C34_Witness ==
    /\ region[1].slot_count = 2
    /\ slot[1][0].seq = 3
    /\ slot[1][1].seq = 2

(***************************************************************************)
(* The subscriber's cursor                                                 *)
(***************************************************************************)
\* C35: a subscriber's last_seq never decreases and never exceeds the
\* w_head of its ring, whichever path of usrl_sub_next assigns it.
C35_CursorMonotoneBelowHead ==
    /\ [](\A s \in Subs :
            sub[s].desc # NULL => sub[s].last_seq <= w_head[sub[s].desc])
    /\ [][\A s \in Subs : sub'[s].last_seq >= sub[s].last_seq]_vars

\* one subscriber has just returned from a torn read with its cursor moved,
\* the other was moved by the overrun jump and stands behind the re-load
C35_Witness ==
    /\ last.who = "s1" /\ last.path = "torn"
    /\ sub["s1"].last_seq > subf["s1"].entry
    /\ subf["s2"].pc = "load_seq"
    /\ sub["s2"].last_seq > subf["s2"].entry

(***************************************************************************)
(* What a failed build leaves at the path                                  *)
(***************************************************************************)
\* C36: after usrl_core_init has returned a failure code the object at the
\* path shows no valid magic, and usrl_get_topic on a mapping of it finds
\* none of the topics of the failed build.
C36_FailedBuildLeavesNoTopic ==
    (last.who = "init" /\ last.rc < 0) =>
        /\ ~(core.img.exists /\ core.img.magic)
        /\ \A i \in 1..Len(core.topics) :
              usrl_get_topic(core.img, core.topics[i].name) = NULL

(***************************************************************************)
(* usrl_pub_create: the region size it asks usrl_core_init for             *)
(***************************************************************************)
g_default_shm_size_mb == 64
MiB == 1048576

usrl__choose_shm_size(ring_size) ==
    LET min_default == g_default_shm_size_mb * MiB
    IN  IF ring_size > min_default THEN ring_size ELSE min_default

\* sc, ss and requested_shm_size of usrl_pub_create for a publisher config
PubCreateSc(config) == IF config.slot_count > 0 THEN config.slot_count ELSE 4096
PubCreateSs(config) == IF config.slot_size > 0 THEN config.slot_size ELSE 1024
RequestedShmSize(config) ==
    usrl__choose_shm_size(PubCreateSc(config) * PubCreateSs(config) + MiB)

\* the UsrlTopicConfig usrl_pub_create hands to usrl_core_init
PubCreateTcfg(config) ==
    [name |-> "a", slot_count |-> PubCreateSc(config),
     slot_size |-> PubCreateSs(config), type |-> config.type]

\* publisher configs: defaults (0), small rings, and rings of a few large
\* slots; the sizes of the build stay within the model's integers
SizeSlotCounts == {0, 1, 2, 32, 33, 64, 100}
SizeSlotSizes == {0, 8, 1000, 1024, MiB}
SizeCfgs ==
    {c \in [slot_count : SizeSlotCounts, slot_size : SizeSlotSizes,
            type : {USRL_RING_TYPE_SWMR}] :
        2 * PubCreateSc(c) <= WordMax \div (PubCreateSs(c) + 2 * SizeofSlotHeader)}

\* usrl_pub_create up to its call of usrl_core_init
PubCreateInit ==
    /\ core.ncalls = 0
    /\ \E config \in SizeCfgs :
          CoreInitCall(FALSE, FALSE, RequestedShmSize(config), <<PubCreateTcfg(config)>>)

InitSize == InitCore

NextSize ==
    \/ PubCreateInit
    \/ CoreInitMagic
    \/ CoreInitTable
    \/ CoreInitEntry
    \/ CoreInitDesc
    \/ CoreInitReserve

SpecSize == InitSize /\ [][NextSize]_vars

\* C37: the region size usrl_pub_create requests is large enough for the
\* build of its topic: the usrl_core_init call it makes never returns
\* OutOfSpace (-4).
C37_CreateSizeSuffices ==
    (last.who = "init" /\ last.op = "core_init") => last.rc # -4

(***************************************************************************)
(* Facade receive and health: usrl_sub_recv, usrl_sub_get_health           *)
(***************************************************************************)
\* lag at and above which a subscriber is reported unhealthy
HealthLagLimit == 100

\* usrl_swmr_total_published(desc): the ring's w_head
usrl_swmr_total_published(o) == w_head[o]

\* faulty variant: healthy looks at the lag only
usrl_sub_get_health_LagOnly(subnull, outnull, h, handle) ==
    IF subnull \/ outnull THEN <<>>
    ELSE LET errors == h.local_skips + h.local_errors + handle.skipped_count
             head == IF handle.desc # NULL THEN usrl_swmr_total_published(handle.desc) ELSE 0
             lag == IF handle.desc # NULL /\ head > handle.last_seq
                    THEN head - handle.last_seq ELSE 0
         IN  <<h.local_ops, errors, 0, lag, IF lag < HealthLagLimit THEN 1 ELSE 0>>

\* usrl_sub_get_health(sub, out): the fields it stores in *out, as
\* <<operations, errors, rate_hz, lag, healthy>>; nothing for a null argument
usrl_sub_get_health(subnull, outnull, h, handle) ==
    IF subnull \/ outnull THEN <<>>
    ELSE LET errors == h.local_skips + h.local_errors + handle.skipped_count
             head == IF handle.desc # NULL THEN usrl_swmr_total_published(handle.desc) ELSE 0
             lag == IF handle.desc # NULL /\ head > handle.last_seq
                    THEN head - handle.last_seq ELSE 0
         IN  <<h.local_ops, errors, 0, lag,
               IF lag < HealthLagLimit /\ errors = 0 THEN 1 ELSE 0>>

\* entry of usrl_sub_recv: the argument check
RecvCall(s, subnull, bufnull, max_len) ==
    /\ fac[s].recv.rpc = "idle"
    /\ subf[s].pc = "idle"
    /\ IF subnull \/ bufnull
       THEN /\ last' = FacEvent(s, "sub_recv",
                                usrl_sub_recv(subnull, bufnull, 0, fac[s].recv.health).ret,
                                "invalid")
            /\ fac' = [fac EXCEPT ![s].recv.calls = @ + 1]
       ELSE /\ fac' = [fac EXCEPT ![s].recv.rpc = "next", ![s].recv.max_len = max_len,
                                  ![s].recv.calls = @ + 1]
            /\ last' = NoEvent
    /\ UNCHANGED <<shared, pub, pubf, sub, subf, granted, delivered, core>>

\* has the usrl_sub_next call of the running usrl_sub_recv returned
NextReturned(s) == subf[s].pc = "idle" /\ last.who = s /\ last.op = "sub_next"

\* the usrl_sub_next call of usrl_sub_recv: no out_pub_id is asked for
RecvNextCall(s) ==
    /\ fac[s].recv.rpc = "next"
    /\ ~NextReturned(s)
    /\ SubCall(s, FALSE, FALSE, fac[s].recv.max_len, FALSE)

\* after usrl_sub_next returned: the counters and the value returned
RecvReturn(s) ==
    /\ fac[s].recv.rpc = "next"
    /\ NextReturned(s)
    /\ LET r == usrl_sub_recv(FALSE, FALSE, last.rc, fac[s].recv.health)
       IN  /\ fac' = [fac EXCEPT ![s].recv.rpc = "idle", ![s].recv.health = r.health]
           /\ last' = [FacEvent(s, "sub_recv", r.ret, last.path) EXCEPT !.seq = last.seq]
    /\ UNCHANGED <<shared, pub, pubf, sub, subf, granted, delivered, core>>

\* a usrl_sub_get_health call between two usrl_sub_recv calls
HealthCall(s, subnull, outnull) ==
    /\ fac[s].recv.rpc = "idle"
    /\ subf[s].pc = "idle"
    /\ last' = [FacEvent(s, "get_health", 0, IF subnull \/ outnull THEN "invalid" ELSE "report")
                   EXCEPT !.out = usrl_sub_get_health(subnull, outnull, fac[s].recv.health, sub[s])]
    /\ UNCHANGED <<shared, pub, pubf, sub, subf, fac, granted, delivered, core>>

\* A SWMR topic whose publisher has published w0 full messages before the
\* subscriber was created: s1 is bound to the ring (last_seq 0), or it was
\* created with a topic name the region does not hold and its handle is
\* unbound. granted and delivered start empty: they record the publishes and
\* deliveries from here on.
HealthStarts == {0, HealthLagLimit - MaxSeq}

RanSlot(cfg, w0, i) ==
    LET n == next_power_of_two_u32(cfg.slot_count)
        cap == usrl_align_up(SizeofSlotHeader + cfg.slot_size, USRL_SLOT_ALIGN)
                   - SizeofSlotHeader
    IN  IF w0 < i + 1 THEN EmptySlot(cap)
        ELSE [seq |-> w0 - ((w0 - 1 - i) % n), payload_len |-> cap,
              pub_id |-> PubIdOf("p1"), payload |-> PayloadOf(PubIdOf("p1"), cap)]

InitHealth ==
    \E cfg \in SwmrConfigs, w0 \in HealthStarts, bound \in BOOLEAN :
        /\ shm_path = 1
        /\ nobj = 1
        /\ region = [o \in Objects |-> IF o = 1 THEN BuiltRegion(cfg) ELSE NoRegion]
        /\ w_head = [o \in Objects |-> IF o = 1 THEN w0 ELSE 0]
        /\ slot = [o \in Objects |->
                     IF o = 1 THEN [i \in DOMAIN BuiltSlots(cfg) |-> RanSlot(cfg, w0, i)]
                     ELSE <<>>]
        /\ pub = [p \in Pubs |->
                    IF p = "p1" THEN usrl_pub_init(UnboundPub, 1, FALSE, PubIdOf(p))
                    ELSE UnboundPub]
        /\ sub = [s \in Subs |->
                    IF s = "s1" /\ bound THEN usrl_sub_init(UnboundSub, 1) ELSE UnboundSub]
        /\ pubf = [p \in Pubs |-> IdlePubFrame]
        /\ subf = [s \in Subs |-> IdleSubFrame]
        /\ fac = [h \in Pubs \cup Subs |-> IdleFac]
        /\ last = NoEvent
        /\ granted = [o \in Objects |-> <<>>]
        /\ delivered = [s \in Subs |-> <<>>]
        /\ core = IdleCore

\* a usrl_sub_next call inside usrl_sub_recv has returned and the facade has
\* not yet looked at the value: its next step touches the handle only
RecvPending == \E s \in Subs : fac[s].recv.rpc = "next" /\ NextReturned(s)

\* MaxSeq publishes from either start
HealthCap == IF w_head[1] <= MaxSeq THEN MaxSeq ELSE HealthLagLimit

HealthPubStep(p) ==
    \/ \E len \in {0, RingCap} :
          PubCallCap(p, FALSE, FALSE, PubIdOf(p), len, HealthCap)
    \/ PubMemcpy(p)
    \/ PubStoreLen(p)
    \/ PubStorePubId(p)
    \/ PubCommit(p)

HealthSubStep(s) ==
    \/ /\ fac[s].recv.calls < MaxRecvs
       /\ \E subnull, bufnull \in BOOLEAN, max_len \in BufLens(RingCap) :
             /\ subnull \/ bufnull => max_len = RingCap
             /\ RecvCall(s, subnull, bufnull, max_len)
    \/ RecvNextCall(s)
    \/ SubReload(s)
    \/ SubLoadSeq(s)
    \/ SubReadLen(s)
    \/ SubMemcpy(s)
    \/ SubPostSeq(s)
    \/ \E subnull, outnull \in BOOLEAN : HealthCall(s, subnull, outnull)

NextHealth ==
    \/ ~RecvPending /\ HealthPubStep("p1")
    \/ ~RecvPending /\ HealthSubStep("s1")
    \/ RecvReturn("s1")

SpecHealth == InitHealth /\ [][NextHealth]_vars

\* the change of a handle's three counters over a step
CounterDelta(s) ==
    <<fac'[s].recv.health.local_ops - fac[s].recv.health.local_ops,
      fac'[s].recv.health.local_skips - fac[s].recv.health.local_skips,
      fac'[s].recv.health.local_errors - fac[s].recv.health.local_errors>>

\* a usrl_sub_recv call of s returns in this step
RecvReturns(s) ==
    /\ last'.who = s /\ last'.op = "sub_recv"
    /\ fac'[s].recv.rpc = "idle"
    /\ fac[s].recv.rpc = "next" \/ fac'[s].recv.calls = fac[s].recv.calls + 1

\* what a health report of s holds, from the state it was taken in
ReportOf(s) ==
    LET h == fac[s].recv.health
        errors == h.local_skips + h.local_errors + sub[s].skipped_count
        lag == IF sub[s].desc = NULL THEN 0
               ELSE IF w_head[sub[s].desc] - sub[s].last_seq > 0
                    THEN w_head[sub[s].desc] - sub[s].last_seq ELSE 0
    IN  <<h.local_ops, errors, 0, lag, IF lag < 100 /\ errors = 0 THEN 1 ELSE 0>>

ReportRight ==
    \A s \in Subs :
        (last.who = s /\ last.op = "get_health" /\ last.path = "report")
            => last.out = ReportOf(s)

\* C38 as stated: usrl_sub_get_health reports lag = max(0, w_head - last_seq)
\* and healthy = (lag < 100 and errors = 0) with errors the sum of the
\* three skip and error counts, and every usrl_sub_recv call changes exactly
\* one of local_ops, local_skips, local_errors, or none when it reports no
\* data.
C38_OneCounterOrNoData ==
    /\ []ReportRight
    /\ [][\A s \in Subs :
            RecvReturns(s) =>
                \/ CounterDelta(s) \in {<<1, 0, 0>>, <<0, 1, 0>>, <<0, 0, 1>>}
                \/ CounterDelta(s) = <<0, 0, 0>> /\ last'.rc = -11]_vars

\* C38, amended: the health report is as stated; a usrl_sub_recv call adds
\* one to local_ops when it returns a message, to local_skips on a
\* truncation, to local_errors on a ring error, and changes no counter when
\* it reports no data (-11) or refuses a null sub or buffer (-1); no other
\* step changes the counters.
C38_OneCounterNoDataOrRefused ==
    /\ []ReportRight
    /\ [][\A s \in Subs :
            IF RecvReturns(s)
            THEN \/ CounterDelta(s) = <<1, 0, 0>> /\ last'.rc > 0
                                                  /\ last'.path = "msg"
                 \/ CounterDelta(s) = <<0, 1, 0>> /\ last'.rc = -1
                                                  /\ last'.path = "trunc"
                 \/ CounterDelta(s) = <<0, 0, 1>> /\ last'.rc = -1
                                                  /\ last'.path = "invalid"
                                                  /\ fac[s].recv.rpc = "next"
                 \/ CounterDelta(s) = <<0, 0, 0>> /\ last'.rc = -11
                 \/ CounterDelta(s) = <<0, 0, 0>> /\ last'.rc = -1
                                                  /\ last'.path = "invalid"
                                                  /\ fac[s].recv.rpc = "idle"
            ELSE CounterDelta(s) = <<0, 0, 0>>]_vars

\* a report of lag 100 for a subscriber without errors, unhealthy by lag
\* alone, after a usrl_sub_recv call that was refused for a null buffer
C38_Witness ==
    /\ last.who = "s1" /\ last.op = "get_health"
    /\ last.out = <<0, 0, 0, HealthLagLimit, 0>>
    /\ fac["s1"].recv.calls = 1

(***************************************************************************)
(* The difference-based draft of usrl_mwmr_pub_publish                     *)
(***************************************************************************)
\* uint64_t diff = commit_seq - current_seq: the subtraction wraps; the
\* model's word stands for the 64-bit one
SeqDiff(commit_seq, current_seq) == (commit_seq - current_seq) % WordModulus

\* the gate of the draft: current_seq == 0 || diff >= slot_count
GateSafeDiff(current_seq, commit_seq, slot_count) ==
    \/ current_seq = 0
    \/ SeqDiff(commit_seq, current_seq) >= slot_count

\* one iteration of the draft's spin: load of the slot's seq, the test, and
\* the iteration cap (10000 in the draft, max_iter here)
PubGateDiff(p) ==
    /\ pubf[p].pc = "gate"
    /\ LET o == pub[p].desc
           current_seq == slot[o][PubSlot(p)].seq
       IN  IF GateSafeDiff(current_seq, pubf[p].commit_seq, region[o].slot_count)
           THEN /\ pubf' = [pubf EXCEPT ![p].pc = AfterGatePc(pubf[p].len)]
                /\ last' = NoEvent
           ELSE IF pubf[p].iter + 1 > max_iter
                THEN /\ pubf' = [pubf EXCEPT ![p] = IdlePubFrame]
                     /\ last' = PubEvent(p, -3, "timeout", pubf[p].commit_seq)
                ELSE /\ pubf' = [pubf EXCEPT ![p].iter = @ + 1]
                     /\ last' = NoEvent
    /\ UNCHANGED <<shared, pub, sub, subf, fac, granted, delivered, core>>

DiffPubStep(p) ==
    \/ PubCallDrain(p)
    \/ PubGateDiff(p)
    \/ PubMemcpy(p)
    \/ PubStoreLen(p)
    \/ PubStorePubId(p)
    \/ PubCommit(p)

\* two publishers of the draft on a MWMR ring
InitDiff == InitDrain

NextDiff == \E p \in Pubs : DiffPubStep(p)

SpecDiff == InitDiff /\ [][NextDiff]_vars

\* C39: in the difference-based draft a writer passes the gate only when
\* the slot is unused or holds a sequence at least slot_count older than
\* its own commit sequence, and never when the slot holds a sequence newer
\* than its own.
C39_DiffGatePassesOnlyOlder ==
    [][\A p \in Pubs : pub[p].is_mwmr =>
          LET v == slot[pub[p].desc][PubSlot(p)].seq
              c == pubf[p].commit_seq
              sc == region[pub[p].desc].slot_count
          IN  /\ GatePassStep(p) => (v = 0 \/ v + sc <= c)
              /\ (pubf[p].pc = "gate" /\ v > c) => pubf'[p].pc \notin Writing]_vars

(***************************************************************************)
(* usrl_mwmr_pub_init on a region of one topic                             *)
(***************************************************************************)
\* the name of the one topic of the region RingInit builds, and a name the
\* region does not hold
RingTopic == "a"
TopicNames == {"a", "b"}

\* faulty variant: the type of the topic is not looked at
usrl_mwmr_pub_init_AnyType(h, o, topic, id) ==
    IF ~region[o].magic \/ topic # RingTopic THEN h
    ELSE [h EXCEPT !.desc = o, !.mask = region[o].slot_count - 1,
                   !.pub_id = id, !.is_mwmr = TRUE]

\* usrl_mwmr_pub_init(p, core_base, topic, pub_id) on a mapping of object o:
\* usrl_get_topic finds the entry when the name is the region's topic
usrl_mwmr_pub_init(h, o, topic, id) ==
    IF topic # RingTopic THEN h
    ELSE usrl_pub_init(h, o, TRUE, id)

\* a usrl_mwmr_pub_init call on the handle p, zero-initialised before; the
\* event keeps the arguments: path "null" for a null pointer, out the name
MwmrPubInit(p, anynull, topic) ==
    /\ fac[p].pc = "idle"
    /\ pubf[p].pc = "idle"
    /\ pub' = [pub EXCEPT ![p] = IF anynull THEN @
                                 ELSE usrl_mwmr_pub_init(@, 1, topic, PubIdOf(p))]
    /\ fac' = [fac EXCEPT ![p].pc = "done"]
    /\ last' = [FacEvent(p, "mwmr_pub_init", 0, IF anynull THEN "null" ELSE "call")
                   EXCEPT !.out = <<topic>>]
    /\ UNCHANGED <<shared, pubf, sub, subf, granted, delivered, core>>

\* A built region of one SWMR or MWMR topic and two zero-initialised
\* publisher handles; each is initialised at most once and publishes,
\* bound or not.
InitBind ==
    \E cfg \in SwmrConfigs \cup MwmrConfigs :
        RingInitFac(cfg, {}, {}, [h \in Pubs \cup Subs |-> IdleFac])

BindPubStep(p) ==
    \/ \E anynull \in BOOLEAN, topic \in TopicNames : MwmrPubInit(p, anynull, topic)
    \/ \E len \in Lens(RingCap) : PubCall(p, FALSE, FALSE, PubIdOf(p), len)
    \/ PubGate(p)
    \/ PubMemcpy(p)
    \/ PubStoreLen(p)
    \/ PubStorePubId(p)
    \/ PubCommit(p)

NextBind == \E p \in Pubs : BindPubStep(p)

SpecBind == InitBind /\ [][NextBind]_vars

\* C40: usrl_mwmr_pub_init binds the handle only when the named topic
\* exists and is of type MWMR, and leaves the handle as it was for a
\* missing or a SWMR topic; a publish on a zero-initialised handle that was
\* not bound returns -1 and changes neither w_head nor any slot.
C40_BindsOnlyMwmrTopic ==
    [][\A p \in Pubs :
          /\ (last'.who = p /\ last'.op = "mwmr_pub_init" /\ fac[p].pc = "idle") =>
                IF /\ last'.path = "call"
                   /\ last'.out = <<RingTopic>>
                   /\ region[1].type = USRL_RING_TYPE_MWMR
                THEN pub'[p] = [desc |-> 1, mask |-> region[1].slot_count - 1,
                                pub_id |-> PubIdOf(p), is_mwmr |-> TRUE]
                ELSE pub'[p] = pub[p] /\ pub'[p] = UnboundPub
          /\ (pub[p].desc = NULL /\ last'.who = p /\ last'.op = "publish") =>
                /\ last'.rc = -1
                /\ UNCHANGED <<w_head, slot, region>>
                /\ pubf'[p].pc = "idle"
          /\ (pub[p].desc = NULL /\ pubf[p].pc = "idle") => pubf'[p].pc = "idle"]_vars

\* on a MWMR region p1 is bound and has published; p2 was initialised with
\* a name the region does not hold and its publish has just been refused
C40_Witness ==
    /\ region[1].type = USRL_RING_TYPE_MWMR
    /\ pub["p1"].desc = 1 /\ w_head[1] >= 1
    /\ fac["p2"].pc = "done" /\ pub["p2"] = UnboundPub
    /\ last.who = "p2" /\ last.op = "publish" /\ last.rc = -1

====
